---- MODULE Spec2Model ----
(***************************************************************************)
(* A model of the build engine of cargo: BuildRunner::compile and the job  *)
(* queue it drives (src/cargo/core/compiler/build_runner/mod.rs).          *)
(*                                                                         *)
(* BuildRunner is translated from its source.  JobQueue, Fingerprint and   *)
(* the per-unit command line live in job_queue.rs, fingerprint.rs and      *)
(* compiler/mod.rs; they are modelled from sections 4.5 to 4.7 of the      *)
(* specification, and so is the exclusive package cache lock.              *)
(* make_dep_path is translated from crates/cargo-util/src/registry.rs,     *)
(* collect_packages from compiler/output_sbom.rs, TargetInfo from          *)
(* compiler/build_context/target_info.rs, du from                          *)
(* crates/cargo-util/src/du.rs and CargoLock from util/lock.rs.            *)
(***************************************************************************)
EXTENDS Naturals, FiniteSets, Sequences, TLC

\* ---------------------------------------------------------------- bounds
NumUnits == 3
MaxJobs == 2
MaxChanges == 1
MaxNameLen == 5
\* the entries the walker of du yields, and its threads
NumEntries == 3
NumWalkers == 2
\* the width of the counter of du, in place of the 64 bits of a u64
U64Bits == 3

Units == 1..NumUnits
Cfgs == {"has_feature"}
Pkgs == {"p1", "p2"}
CrateNames == {"foo", "bar"}
Kinds == {"Host", "Target"}
Paths == {"a", "b"}

VARIABLES
    \* BuildContext: the frozen unit graph and the build configuration
    unit_graph,          \* Unit -> set of Units it depends on
    mode,                \* Unit -> CompileMode
    requires_upstream_objects,  \* Unit -> BOOLEAN
    pkg,                 \* Unit -> package id
    is_lib,              \* Unit -> unit.target.is_lib()
    crate_name,          \* Unit -> unit.target.crate_name()
    kind,                \* Unit -> CompileKind
    outputs,             \* Unit -> its OutputFiles: [path, hardlink, export_path]
    jobs,                \* bcx.jobs()
    jobserver_from_env,  \* {} or {tokens free in the inherited jobserver}
    force_rebuild,       \* bcx.build_config.force_rebuild
    shell_ok,            \* whether writing to the shell succeeds
    roots,               \* bcx.roots: the units the user asked for
    \* BuildRunner
    jobserver,           \* tokens free in the jobserver pool
    primary_packages,    \* the packages of the roots
    metadata_for_doc_units, \* Unit -> {} or {the metadata rustdoc is given}
    lock,                \* the package cache lock compile() holds
    rmeta_required,      \* set of Units
    build_script_outputs,\* set of [meta, cfgs]: the map Metadata -> BuildScriptOutput
    to_doc_test,         \* Unit -> {} or {the cfg args collected for rustdoc --test}
    pc,                  \* position inside compile()
    result,              \* what compile() returned
    warnings,            \* what check_collisions wrote to the shell
    cc,                  \* what check_collisions returned
    \* JobQueue
    state,               \* Unit -> its scheduling state
    fresh,               \* Unit -> BOOLEAN, the fingerprint's verdict at enqueue
    queue_deps,          \* Unit -> the dependencies it is still waiting for
    rmeta_produced,      \* Units whose rmeta exists in this run
    tokens,              \* tokens the queue has acquired from the pool
    first_error,         \* the error execute() will return
    interrupted,
    argv,                \* Unit -> {} or {the cfgs of its command line}
    fail_log,            \* failures in the order the queue received them
    printed,             \* Unit -> the cfgs its build script run printed
    \* the target directory and the sources
    prepared,            \* the layouts whose directories exist
    writer,              \* another operation holds the exclusive lock
    stored,              \* Unit -> {} or {the fingerprint its last build stored}
    timestamp,           \* Unit -> invoked.timestamp
    source,              \* Unit -> [exists, mtime] of its tracked source file
    flags,               \* Unit -> version of flags/env/compiler inputs
    clock,
    run,                 \* which consecutive compile() this is
    changed,             \* Units whose inputs changed since the previous run
    last_run,            \* {} or {what the first run returned and left Fresh}
    \* the registry index
    lookup_name,         \* the dependency name make_dep_path is given
    lookup_prefix_only,  \* its prefix_only argument
    dep_path,            \* what it returned, <<>> before the call
    \* the SBOM precursor of one unit
    extern_crate_name,   \* <<parent, dep>> -> UnitDep::extern_crate_name
    sbom_unit,           \* the unit output_sbom is called for
    sbom_pc,             \* position inside collect_packages
    queue,               \* the UnitDeps still to visit
    visited_dependencies,
    packages,            \* the Vec<SbomPackage> being built
    \* TargetInfo
    probe,               \* how the probe of rustc went
    rustc_stderr,        \* the lines rustc wrote to stderr when probed
    rustc_stdout,        \* the lines it wrote to stdout
    discover,            \* what rustc does when asked about one more type
    crate_types,         \* the map crate type -> Option<(prefix, suffix)>
    sysroot_libdir,      \* {} or {the line taken for the sysroot}
    ti_result,           \* what TargetInfo::new returned
    ft_args,             \* {} or {the arguments of the file_types call}
    ft_result,           \* what file_types returned
    \* du
    tree,                \* entry -> [kind, len]: what the walker yields
    variant,             \* "atomic" or "mutex": target_has_atomic = "64"
    overflow_checks,     \* whether the build checks arithmetic overflow
    patterns_ok,         \* whether the patterns can be built
    walked,              \* the entries handed to a thread
    total,               \* the counter
    total_lock,          \* the threads holding the mutex of the counter
    walker,              \* thread -> [pc, entry]
    local,               \* thread -> the value it read from the counter
    walk_err,                 \* the error slot: {} or {the entry that failed}
    quit,                \* WalkState::Quit was returned
    panicked,            \* a thread panicked with the mutex held
    du_pc,               \* position inside du_inner
    du_result,           \* what du_inner returned
    \* CargoLock
    config,              \* the value of build.lock-kind, if any
    lock_kind,           \* what lock_kind returned
    lock_mode,           \* Mode::Read or Mode::Write of the FileLock
    holder,              \* how another actor holds the lock file
    lock_dir,            \* the state of the parent directory
    io_ok,               \* whether locking can fail for other reasons
    contended,           \* an attempt found the lock held
    cl_pc,               \* position inside CargoLock::lock
    cl_result            \* what CargoLock::lock returned

vars == <<unit_graph, mode, requires_upstream_objects, pkg, is_lib,
          crate_name, kind, outputs, jobs, jobserver_from_env, force_rebuild,
          shell_ok, roots, jobserver, primary_packages,
          metadata_for_doc_units, lock, prepared, writer,
          rmeta_required, build_script_outputs, to_doc_test, pc, result,
          warnings, cc,
          state, fresh, queue_deps, rmeta_produced, tokens, first_error,
          interrupted, argv, fail_log, printed, stored, timestamp, source,
          flags, clock, run, changed, last_run,
          lookup_name, lookup_prefix_only, dep_path,
          extern_crate_name, sbom_unit, sbom_pc, queue, visited_dependencies,
          packages,
          probe, rustc_stderr, rustc_stdout, discover, crate_types,
          sysroot_libdir, ti_result, ft_args, ft_result,
          tree, variant, overflow_checks, patterns_ok, walked, total,
          total_lock, walker, local, walk_err, quit, panicked, du_pc, du_result,
          config, lock_kind, lock_mode, holder, lock_dir, io_ok, contended,
          cl_pc, cl_result>>

bcx == <<unit_graph, mode, requires_upstream_objects, pkg, is_lib,
         crate_name, kind, outputs, jobs, jobserver_from_env, force_rebuild,
         shell_ok, roots>>
report == <<warnings, cc>>
prep == <<metadata_for_doc_units, prepared, writer>>
disk == <<stored, timestamp, source, flags>>
hist == <<clock, run, changed, last_run>>
registry == <<lookup_name, lookup_prefix_only, dep_path>>
sbom == <<extern_crate_name, sbom_unit, sbom_pc, queue, visited_dependencies,
          packages>>
target_info == <<probe, rustc_stderr, rustc_stdout, discover, crate_types,
                 sysroot_libdir, ti_result, ft_args, ft_result>>
du_state == <<tree, variant, overflow_checks, patterns_ok, walked, total,
              total_lock, walker, local, walk_err, quit, panicked, du_pc,
              du_result>>
lock_file == <<config, lock_kind, lock_mode, holder, lock_dir, io_ok,
               contended, cl_pc, cl_result>>
\* what lies outside compile()
outside == <<registry, sbom, target_info, du_state, lock_file>>
\* what compile() reads and writes
build == <<bcx, prep, lock, jobserver, rmeta_required, primary_packages,
           build_script_outputs, to_doc_test, pc, result, state, fresh,
           queue_deps, rmeta_produced, tokens, first_error, interrupted,
           argv, fail_log, disk, hist, report, printed>>

\* ------------------------------------------------------------ unit graph
Min(S) == CHOOSE x \in S : \A y \in S : x <= y

RECURSIVE Closure(_)
Closure(S) ==
    LET T == S \cup UNION {unit_graph[v] : v \in S}
    IN  IF T = S THEN S ELSE Closure(T)

\* every unit u depends on, directly or not
TransitiveDeps(u) == Closure(unit_graph[u])
\* every unit that depends on u, directly or not
Dependents(u) == {p \in Units : u \in TransitiveDeps(p)}
Roots == {u \in Units : \A p \in Units : u \notin unit_graph[p]}

\* ------------------------------------------------------------ BuildRunner
\* variant: the created jobserver keeps all its tokens
NewJobserver_NoAcquire(from_env, n) ==
    IF from_env # {} THEN Min(from_env) ELSE n

\* BuildRunner::new: an inherited jobserver is used as it is; otherwise one
\* is created with `jobs` tokens and one of them is acquired at once.
NewJobserver(from_env, n) ==
    IF from_env # {} THEN Min(from_env) ELSE n - 1

\* variant: the mode of the dependency is not looked at
OnlyRequiresRmeta_AnyDepMode(parent, dep) ==
    /\ ~requires_upstream_objects[parent]
    /\ mode[parent] = "Build"
    /\ ~requires_upstream_objects[dep]

\* variant: the dependency may require upstream objects
OnlyRequiresRmeta_AnyDepTarget(parent, dep) ==
    /\ ~requires_upstream_objects[parent]
    /\ mode[parent] = "Build"
    /\ mode[dep] = "Build"

\* variant: the parent may require upstream objects
OnlyRequiresRmeta_AnyParentTarget(parent, dep) ==
    /\ mode[parent] = "Build"
    /\ ~requires_upstream_objects[dep]
    /\ mode[dep] = "Build"

OnlyRequiresRmeta(parent, dep) ==
    /\ ~requires_upstream_objects[parent]
    /\ mode[parent] = "Build"
    /\ ~requires_upstream_objects[dep]
    /\ mode[dep] = "Build"

\* variant: every root is rebuilt
ForceRebuild_Always == TRUE

\* compile() hands build_config.force_rebuild to the compile of every root
ForceRebuild == force_rebuild

\* variant: the parent is recorded, not the dependency
RecordUnitsRequiringMetadata_Parents ==
    {key \in Units : \E dep \in Units :
        dep \in unit_graph[key] /\ OnlyRequiresRmeta(key, dep)}

RecordUnitsRequiringMetadata ==
    {dep \in Units : \E key \in Units :
        dep \in unit_graph[key] /\ OnlyRequiresRmeta(key, dep)}

RmetaRequired(unit) == unit \in rmeta_required

Metadata(unit) == <<"meta", unit>>

\* variant: the package comparison is inverted
FindBuildScriptUnit_OtherPackage(unit) ==
    IF mode[unit] = "RunCustomBuild" THEN {unit}
    ELSE LET c == {d \in unit_graph[unit] :
                      mode[d] = "RunCustomBuild" /\ pkg[d] # pkg[unit]}
         IN  IF c = {} THEN {} ELSE {Min(c)}

\* {} is Option::None, {u} is Some(u); the dependency list is in unit order
FindBuildScriptUnit(unit) ==
    IF mode[unit] = "RunCustomBuild" THEN {unit}
    ELSE LET c == {d \in unit_graph[unit] :
                      mode[d] = "RunCustomBuild" /\ pkg[d] = pkg[unit]}
         IN  IF c = {} THEN {} ELSE {Min(c)}

FindBuildScriptMetadata(unit) ==
    {Metadata(script_unit) : script_unit \in FindBuildScriptUnit(unit)}

\* the `--cfg` arguments build_script_outputs holds for `unit`
CfgArgs(unit) ==
    UNION {e.cfgs : e \in {o \in build_script_outputs :
                              o.meta \in FindBuildScriptMetadata(unit)}}

\* BuildScriptOutputs::insert
InsertScriptOutput(map, meta, cfgs) ==
    {o \in map : o.meta # meta} \cup {[meta |-> meta, cfgs |-> cfgs]}

\* ------------------------------------------------------- check_collisions
IsPrimaryPackage(unit) == pkg[unit] \in primary_packages

\* a HashMap as a set of <<key, value>> with one value per key; Get is {}
\* for None, and Insert replaces the value the key had
Get(map, key) == {e[2] : e \in {x \in map : x[1] = key}}
Insert(map, key, value) == {x \in map : x[1] # key} \cup {<<key, value>>}
The(S) == CHOOSE x \in S : TRUE

RECURSIVE Sorted(_)
Sorted(S) == IF S = {} THEN <<>> ELSE <<Min(S)>> \o Sorted(S \ {Min(S)})

\* the orders a HashMap may hand out the keys of the unit graph in
KeyOrders ==
    {keys \in [1..NumUnits -> Units] :
        \A i, j \in 1..NumUnits : keys[i] = keys[j] => i = j}

RECURSIVE SortUnstable(_)
\* keys.sort_unstable(): the least key first, by the order of the units
SortUnstable(keys) ==
    IF keys = <<>> THEN <<>>
    ELSE LET least == Min({keys[i] : i \in 1..Len(keys)})
         IN  <<least>> \o SortUnstable(SelectSeq(keys, LAMBDA x : x # least))

\* variant: the keys are left in the order of the map
KeysFrom_Unsorted(order) ==
    SelectSeq(order, LAMBDA unit : mode[unit] # "RunCustomBuild")

\* the keys check_collisions goes through, when the map hands them out in
\* `order`
KeysFrom(order) ==
    SortUnstable(SelectSeq(order,
                           LAMBDA unit : mode[unit] # "RunCustomBuild"))

\* variant: a collision is an error
ReportCollision_Fatal(st, what, unit, other_unit, path, suggestion) ==
    [st EXCEPT !.result = <<"collision", unit, other_unit>>]

\* shell().warn(..)?: the warning is written, or the write fails
ReportCollision(st, what, unit, other_unit, path, suggestion) ==
    IF shell_ok
    THEN [st EXCEPT !.warnings = Append(@,
             [what |-> what, unit |-> unit, other_unit |-> other_unit,
              path |-> path, suggestion |-> suggestion])]
    ELSE [st EXCEPT !.result = <<"shell_error">>]

\* variant: the path stays with the unit that had it first
ClaimPath_KeepFirst(st, what, unit, path, suggestion) ==
    IF st.result # <<>> THEN st
    ELSE LET other == Get(st.output_collisions, path)
         IN  IF other = {}
             THEN [st EXCEPT !.output_collisions = Insert(@, path, unit)]
             ELSE ReportCollision(st, what, unit, The(other), path,
                                  suggestion)

\* output_collisions.insert(path, unit), and the report if the path was taken
ClaimPath(st, what, unit, path, suggestion) ==
    IF st.result # <<>> THEN st
    ELSE LET other == Get(st.output_collisions, path)
             st1 == [st EXCEPT !.output_collisions = Insert(@, path, unit)]
         IN  IF other = {} THEN st1
             ELSE ReportCollision(st1, what, unit, The(other), path,
                                  suggestion)

CheckOutput(st, unit, output) ==
    LET s1 == ClaimPath(st, "output filename collision", unit, output.path,
                        IF mode[unit] = "Doc" THEN "rustdoc_suggestion"
                        ELSE "suggestion")
        s2 == IF output.hardlink = {} THEN s1
              ELSE ClaimPath(s1, "output filename collision", unit,
                             The(output.hardlink), "suggestion")
    IN  IF output.export_path = {} THEN s2
        ELSE ClaimPath(s2, "--artifact-dir filename collision", unit,
                       The(output.export_path), "suggestion")

RECURSIVE CheckOutputs(_, _, _)
CheckOutputs(st, unit, i) ==
    IF i > Len(outputs[unit]) \/ st.result # <<>> THEN st
    ELSE CheckOutputs(CheckOutput(st, unit, outputs[unit][i]), unit, i + 1)

\* variant: one map for libraries and binaries alike
DocCollision_OneMap(st, unit) ==
    IF mode[unit] = "Doc" /\ IsPrimaryPackage(unit)
    THEN LET key == <<crate_name[unit], kind[unit]>>
             prev == Get(st.doc_libs, key)
         IN  [st EXCEPT !.doc_libs = Insert(@, key, unit),
                        !.result = IF prev = {} THEN <<>>
                                   ELSE <<"doc_collision", unit, The(prev)>>]
    ELSE st

\* the fatal check on the documented units of the primary packages
DocCollision(st, unit) ==
    IF mode[unit] = "Doc" /\ IsPrimaryPackage(unit)
    THEN LET key == <<crate_name[unit], kind[unit]>>
         IN  IF is_lib[unit]
             THEN LET prev == Get(st.doc_libs, key)
                  IN  [st EXCEPT !.doc_libs = Insert(@, key, unit),
                                 !.result = IF prev = {} THEN <<>>
                                            ELSE <<"doc_collision", unit,
                                                   The(prev)>>]
             ELSE LET prev == Get(st.doc_bins, key)
                  IN  [st EXCEPT !.doc_bins = Insert(@, key, unit),
                                 !.result = IF prev = {} THEN <<>>
                                            ELSE <<"doc_collision", unit,
                                                   The(prev)>>]
    ELSE st

\* variant: the outputs of the unit are looked at before its documentation
CheckUnit_PathsFirst(st, unit) ==
    LET o == CheckOutputs(st, unit, 1)
    IN  IF o.result # <<>> THEN o ELSE DocCollision(o, unit)

\* the body of the loop over the keys
CheckUnit(st, unit) ==
    LET d == DocCollision(st, unit)
    IN  IF d.result # <<>> THEN d ELSE CheckOutputs(d, unit, 1)

RECURSIVE CheckKeys(_, _)
CheckKeys(st, keys) ==
    IF keys = <<>> \/ st.result # <<>> THEN st
    ELSE CheckKeys(CheckUnit(st, Head(keys)), Tail(keys))

EmptyMaps ==
    [doc_libs |-> {}, doc_bins |-> {}, output_collisions |-> {},
     warnings |-> <<>>, result |-> <<>>]

\* self.check_collisions()?
CheckCollisions ==
    /\ pc = "check_collisions"
    /\ \E order \in KeyOrders :
       LET r == CheckKeys(EmptyMaps, KeysFrom(order))
       IN  /\ warnings' = r.warnings
           /\ IF r.result = <<>>
              THEN /\ cc' = <<"ok">>
                   /\ pc' = "doc_metadata"
                   /\ UNCHANGED <<result, lock>>
              ELSE /\ cc' = r.result
                   /\ pc' = "done"
                   /\ result' = r.result
                   /\ lock' = "none"
    /\ UNCHANGED <<bcx, outside, prep, jobserver, rmeta_required, primary_packages,
                   build_script_outputs,
                   to_doc_test, state, fresh, queue_deps, rmeta_produced,
                   tokens, first_error, interrupted, argv, fail_log, disk,
                   hist, printed>>

\* -------------------------------------------------------------- Fingerprint
RECURSIVE Fingerprint(_)
Fingerprint(u) ==
    [unit |-> u, flags |-> flags[u],
     deps |-> {Fingerprint(c) : c \in unit_graph[u]}]

\* variant: the children are not looked at
IsFresh_OwnFilesOnly(u) ==
    /\ stored[u] = {Fingerprint(u)}
    /\ source[u].exists
    /\ source[u].mtime <= timestamp[u]

RECURSIVE IsFresh(_)
IsFresh(u) ==
    /\ stored[u] = {Fingerprint(u)}
    /\ source[u].exists
    /\ source[u].mtime <= timestamp[u]
    /\ \A c \in unit_graph[u] : IsFresh(c)

\* ------------------------------------------------------------------ JobQueue
Running == {u \in Units : state[u] = "Running"}
Finished(u) == state[u] \in {"FinishedFresh", "FinishedCompiled"}
\* the units a compiler process was started for in this run
Spawned == {u \in Units : state[u] \in {"Running", "FinishedCompiled", "Failed"}}

\* JobQueue::enqueue: what `unit` waits for from each dependency
QueueDeps(unit) ==
    {<<dep, IF OnlyRequiresRmeta(unit, dep) THEN "rmeta" ELSE "all">> :
        dep \in unit_graph[unit]}

\* variant: every job needs a token from the pool
TokenAvailable_PoolOnly == jobserver > 0

\* a token can be had without blocking: the queue's own one while nothing
\* runs, one from the pool otherwise
TokenAvailable == Running = {} \/ jobserver > 0

\* variant: an error does not stop the spawning
CanSpawn_AfterError ==
    /\ \E u \in Units : state[u] = "Queued"
    /\ TokenAvailable

CanSpawn ==
    /\ first_error = <<>>
    /\ \E u \in Units : state[u] = "Queued"
    /\ TokenAvailable

\* what the artifact `artifact` of u satisfies: a finished unit has its
\* rmeta too
Satisfied(u, artifact) ==
    IF artifact = "rmeta" THEN {<<u, "rmeta">>}
    ELSE {<<u, "rmeta">>, <<u, "all">>}

\* queue_deps and state once `artifact` of u is there
Release(u, artifact, st) ==
    LET qd == [p \in Units |-> queue_deps[p] \ Satisfied(u, artifact)]
    IN  [deps |-> qd,
         state |-> [p \in Units |->
                      IF st[p] = "Pending" /\ qd[p] = {} THEN "Queued"
                      ELSE st[p]]]

\* variant: the last error is kept
RecordError_Last(err, e) == e

\* the first error is retained, later ones are dropped
RecordError(err, e) == IF err = <<>> THEN e ELSE err

\* the output a build script run may print
ScriptPrints(u) ==
    IF mode[u] = "RunCustomBuild" THEN SUBSET Cfgs ELSE {{}}

\* ------------------------------------------------------------------ compile()
\* acquire_package_cache_lock(CacheLockMode::Shared)?: compile() waits while
\* another operation holds the lock exclusively, then holds it shared; the
\* acquisition may fail instead
\* variant: the lock is taken although another operation holds it
AcquireLock_NoWait(ok) ==
    /\ pc = "lock"
    /\ IF ok
       THEN /\ lock' = "shared"
            /\ pc' = "prepare_units"
            /\ UNCHANGED result
       ELSE /\ result' = <<"lock_error">>
            /\ pc' = "done"
            /\ UNCHANGED lock
    /\ UNCHANGED <<bcx, outside, prep, jobserver, rmeta_required, primary_packages,
                   build_script_outputs, to_doc_test,
                   state, fresh, queue_deps, rmeta_produced, tokens,
                   first_error, interrupted, argv, fail_log, disk, hist,
                   report, printed>>

AcquireLock(ok) ==
    /\ pc = "lock"
    /\ IF ok
       THEN /\ ~writer
            /\ lock' = "shared"
            /\ pc' = "prepare_units"
            /\ UNCHANGED result
       ELSE /\ result' = <<"lock_error">>
            /\ pc' = "done"
            /\ UNCHANGED lock
    /\ UNCHANGED <<bcx, outside, prep, jobserver, rmeta_required, primary_packages,
                   build_script_outputs, to_doc_test,
                   state, fresh, queue_deps, rmeta_produced, tokens,
                   first_error, interrupted, argv, fail_log, disk, hist,
                   report, printed>>

\* another cargo operation takes the package cache lock exclusively: it
\* waits for every shared holder to let go
WriterAcquire ==
    /\ ~writer
    /\ lock = "none"
    /\ writer' = TRUE
    /\ UNCHANGED <<bcx, outside, metadata_for_doc_units, prepared, lock, jobserver,
                   rmeta_required, primary_packages,
                   build_script_outputs, to_doc_test, pc, result,
                   state, fresh, queue_deps, rmeta_produced, tokens,
                   first_error, interrupted, argv, fail_log, disk, hist,
                   report, printed>>

WriterRelease ==
    /\ writer
    /\ writer' = FALSE
    /\ UNCHANGED <<bcx, outside, metadata_for_doc_units, prepared, lock, jobserver,
                   rmeta_required, primary_packages,
                   build_script_outputs, to_doc_test, pc, result,
                   state, fresh, queue_deps, rmeta_produced, tokens,
                   first_error, interrupted, argv, fail_log, disk, hist,
                   report, printed>>

\* variant: the units requiring metadata are not recorded
PrepareUnits_NoRecord ==
    /\ pc = "prepare_units"
    /\ primary_packages' = {pkg[u] : u \in roots}
    /\ pc' = "prepare"
    /\ UNCHANGED <<bcx, outside, prep, lock, jobserver, rmeta_required,
                   build_script_outputs, to_doc_test, result,
                   state, fresh, queue_deps, rmeta_produced, tokens,
                   first_error, interrupted, argv, fail_log, disk, hist,
                   report, printed>>

\* self.prepare_units()?
PrepareUnits ==
    /\ pc = "prepare_units"
    /\ primary_packages' = {pkg[u] : u \in roots}
    /\ rmeta_required' = RecordUnitsRequiringMetadata
    /\ pc' = "prepare"
    /\ UNCHANGED <<bcx, outside, prep, lock, jobserver, build_script_outputs, to_doc_test, result,
                   state, fresh, queue_deps, rmeta_produced, tokens,
                   first_error, interrupted, argv, fail_log, disk, hist,
                   report, printed>>

\* the layouts of the build: the host's and one for every target kind
TargetLayouts == {kind[u] : u \in Units} \ {"Host"}
Layouts == {"Host"} \cup TargetLayouts

\* variant: a directory that cannot be made does not end compile()
Prepare_GoOn(failed) ==
    /\ pc = "prepare"
    /\ failed \subseteq Layouts
    /\ prepared' = IF failed = {} THEN prepared \cup Layouts
                   ELSE IF failed = {"Host"} THEN prepared
                   ELSE prepared \cup {"Host"}
    /\ pc' = "check_collisions"
    /\ UNCHANGED <<result, lock>>
    /\ UNCHANGED <<bcx, outside, metadata_for_doc_units, writer, jobserver,
                   rmeta_required, primary_packages,
                   build_script_outputs, to_doc_test,
                   state, fresh, queue_deps, rmeta_produced, tokens,
                   first_error, interrupted, argv, fail_log, disk, hist,
                   report, printed>>

\* self.prepare()?: the host layout's directories are made, then those of
\* each target layout; the first that cannot be made ends compile()
Prepare(failed) ==
    /\ pc = "prepare"
    /\ failed \subseteq Layouts
    /\ IF failed = {}
       THEN /\ prepared' = prepared \cup Layouts
            /\ pc' = "check_collisions"
            /\ UNCHANGED <<result, lock>>
       ELSE /\ \E made \in SUBSET (TargetLayouts \ failed) :
                 prepared' = IF failed = {"Host"} THEN prepared
                             ELSE prepared \cup {"Host"} \cup made
            /\ result' = <<"prepare_error", The(failed)>>
            /\ pc' = "done"
            /\ lock' = "none"
    /\ UNCHANGED <<bcx, outside, metadata_for_doc_units, writer, jobserver,
                   rmeta_required, primary_packages,
                   build_script_outputs, to_doc_test,
                   state, fresh, queue_deps, rmeta_produced, tokens,
                   first_error, interrupted, argv, fail_log, disk, hist,
                   report, printed>>

\* unit.target: a target of a package is told by its name and its kind
Target(unit) == <<crate_name[unit], is_lib[unit]>>

\* the orders in which the keys of the unit graph, a hash map, may come
RECURSIVE Find(_, _)
\* Iterator::find over the units of `keys` that are in S: {} is None
Find(keys, S) ==
    IF keys = <<>> THEN {}
    ELSE IF Head(keys) \in S THEN {Head(keys)} ELSE Find(Tail(keys), S)

\* variant: a documentation unit is preferred to a check unit
MetadataUnit_DocFirst(unit, keys) ==
    LET matching_units == {other \in Units :
                              /\ pkg[unit] = pkg[other]
                              /\ Target(unit) = Target(other)
                              /\ mode[other] # "Docscrape"}
        check == Find(keys, {other \in matching_units : mode[other] = "Check"})
        doc == Find(keys, {other \in matching_units : mode[other] = "Doc"})
    IN  IF doc # {} THEN The(doc)
        ELSE IF check # {} THEN The(check)
        ELSE unit

\* the unit whose metadata rustdoc is given for `unit`
MetadataUnit(unit, keys) ==
    LET matching_units == {other \in Units :
                              /\ pkg[unit] = pkg[other]
                              /\ Target(unit) = Target(other)
                              /\ mode[other] # "Docscrape"}
        check == Find(keys, {other \in matching_units : mode[other] = "Check"})
        doc == Find(keys, {other \in matching_units : mode[other] = "Doc"})
    IN  IF check # {} THEN The(check)
        ELSE IF doc # {} THEN The(doc)
        ELSE unit

\* self.compute_metadata_for_doc_units()
ComputeMetadataForDocUnits ==
    /\ pc = "doc_metadata"
    /\ \E keys \in KeyOrders :
          metadata_for_doc_units' =
              [unit \in Units |->
                  IF mode[unit] \in {"Doc", "Docscrape"}
                  THEN {Metadata(MetadataUnit(unit, keys))}
                  ELSE {}]
    /\ pc' = "compile_roots"
    /\ UNCHANGED <<bcx, outside, prepared, writer, lock, jobserver,
                   rmeta_required, primary_packages,
                   build_script_outputs, to_doc_test, result,
                   state, fresh, queue_deps, rmeta_produced, tokens,
                   first_error, interrupted, argv, fail_log, disk, hist,
                   report, printed>>

\* super::compile for every root: each unit is enqueued once, with the
\* verdict of its fingerprint
CompileRoots ==
    /\ pc = "compile_roots"
    /\ fresh' = [u \in Units |-> ~ForceRebuild /\ IsFresh(u)]
    /\ queue_deps' = [u \in Units |-> QueueDeps(u)]
    /\ state' = [u \in Units |-> "Pending"]
    /\ pc' = "queue_execute"
    /\ UNCHANGED <<bcx, outside, prep, lock, jobserver, rmeta_required, primary_packages,
                   build_script_outputs,
                   to_doc_test, result, rmeta_produced, tokens, first_error,
                   interrupted, argv, fail_log, disk, hist,
                   report, printed>>

\* queue.execute(): the ready set is seeded with the units that wait for
\* nothing
QueueExecute ==
    /\ pc = "queue_execute"
    /\ state' = [u \in Units |->
                    IF queue_deps[u] = {} THEN "Queued" ELSE "Pending"]
    /\ pc' = "executing"
    /\ UNCHANGED <<bcx, outside, prep, lock, jobserver, rmeta_required, primary_packages,
                   build_script_outputs,
                   to_doc_test, result, fresh, queue_deps, rmeta_produced,
                   tokens, first_error, interrupted, argv, fail_log, disk,
                   hist,
                   report, printed>>

\* one turn of the spawn loop: a ready unit is popped, a token acquired and
\* the job started; a fresh job has no compiler to run and is done at once
Spawn(u) ==
    /\ pc = "executing"
    /\ CanSpawn
    /\ state[u] = "Queued"
    /\ IF fresh[u]
       THEN LET r == Release(u, "all", [state EXCEPT ![u] = "FinishedFresh"])
            IN  /\ state' = r.state
                /\ queue_deps' = r.deps
                /\ rmeta_produced' = rmeta_produced \cup {u}
                /\ UNCHANGED <<jobserver, tokens, argv, stored, timestamp>>
       ELSE /\ state' = [state EXCEPT ![u] = "Running"]
            /\ IF Running = {}
               THEN UNCHANGED <<jobserver, tokens>>
               ELSE /\ jobserver' = jobserver - 1
                    /\ tokens' = tokens + 1
            /\ argv' = [argv EXCEPT ![u] = {CfgArgs(u)}]
            /\ stored' = [stored EXCEPT ![u] = {}]
            /\ timestamp' = [timestamp EXCEPT ![u] = clock]
            /\ UNCHANGED <<queue_deps, rmeta_produced>>
    /\ UNCHANGED <<bcx, outside, prep, lock, rmeta_required, primary_packages,
                   build_script_outputs, to_doc_test, pc,
                   result, fresh, first_error, interrupted, fail_log, source,
                   flags, hist,
                   report, printed>>

\* the queue receives rmeta-produced(u)
RmetaProduced(u) ==
    /\ pc = "executing"
    /\ ~CanSpawn
    /\ state[u] = "Running"
    /\ RmetaRequired(u)
    /\ u \notin rmeta_produced
    /\ rmeta_produced' = rmeta_produced \cup {u}
    /\ LET r == Release(u, "rmeta", state)
       IN  /\ state' = r.state
           /\ queue_deps' = r.deps
    /\ UNCHANGED <<bcx, outside, prep, lock, jobserver, rmeta_required, primary_packages,
                   build_script_outputs,
                   to_doc_test, pc, result, fresh, tokens, first_error,
                   interrupted, argv, fail_log, disk, hist,
                   report, printed>>

\* the queue receives finished(u, ok)
Finish(u, ok) ==
    /\ pc = "executing"
    /\ ~CanSpawn
    /\ state[u] = "Running"
    /\ IF tokens > 0
       THEN /\ tokens' = tokens - 1
            /\ jobserver' = jobserver + 1
       ELSE UNCHANGED <<tokens, jobserver>>
    /\ IF ok
       THEN /\ \E cfgs \in ScriptPrints(u) :
                 /\ printed' = [printed EXCEPT ![u] = cfgs]
                 /\ build_script_outputs' =
                       IF mode[u] = "RunCustomBuild"
                       THEN InsertScriptOutput(build_script_outputs,
                                               Metadata(u), cfgs)
                       ELSE build_script_outputs
            /\ LET r == Release(u, "all", [state EXCEPT ![u] = "FinishedCompiled"])
               IN  /\ state' = r.state
                   /\ queue_deps' = r.deps
            /\ rmeta_produced' = rmeta_produced \cup {u}
            /\ stored' = [stored EXCEPT ![u] = {Fingerprint(u)}]
            /\ UNCHANGED <<first_error, fail_log>>
       ELSE /\ state' = [p \in Units |->
                           IF p = u THEN "Failed"
                           ELSE IF p \in Dependents(u)
                                   /\ state[p] \in {"Pending", "Queued"}
                                THEN "Cancelled"
                                ELSE state[p]]
            /\ first_error' = RecordError(first_error, <<"failed", u>>)
            /\ fail_log' = Append(fail_log, u)
            /\ UNCHANGED <<build_script_outputs, queue_deps, rmeta_produced,
                           stored, printed>>
    /\ UNCHANGED <<bcx, outside, prep, lock, rmeta_required, primary_packages,
                   to_doc_test, pc, result, fresh,
                   interrupted, argv, timestamp, source, flags, hist, report>>

\* an external signal
Interrupt ==
    /\ pc = "executing"
    /\ ~interrupted
    /\ interrupted' = TRUE
    /\ first_error' = RecordError(first_error, <<"cancelled">>)
    /\ UNCHANGED <<bcx, outside, prep, lock, jobserver, rmeta_required, primary_packages,
                   build_script_outputs,
                   to_doc_test, pc, result, state, fresh, queue_deps,
                   rmeta_produced, tokens, argv, fail_log, disk, hist,
                   report, printed>>

\* execute() returns: nothing runs and nothing more can be started
ExecuteReturn ==
    /\ pc = "executing"
    /\ Running = {}
    /\ ~CanSpawn
    /\ IF first_error = <<>>
       THEN pc' = "assemble" /\ UNCHANGED <<result, lock>>
       ELSE pc' = "done" /\ result' = first_error /\ lock' = "none"
    /\ UNCHANGED <<bcx, outside, prep, jobserver, rmeta_required, primary_packages,
                   build_script_outputs,
                   to_doc_test, state, fresh, queue_deps, rmeta_produced,
                   tokens, first_error, interrupted, argv, fail_log, disk,
                   hist,
                   report, printed>>

\* the Compilation is assembled: the arguments of every doctest root
Assemble ==
    /\ pc = "assemble"
    /\ to_doc_test' = [u \in Units |->
                          IF u \in roots /\ mode[u] = "Doctest"
                          THEN {CfgArgs(u)} ELSE {}]
    /\ result' = <<"ok">>
    /\ pc' = "done"
    /\ lock' = "none"
    /\ UNCHANGED <<bcx, outside, prep, jobserver, rmeta_required, primary_packages,
                   build_script_outputs,
                   state, fresh, queue_deps, rmeta_produced, tokens,
                   first_error, interrupted, argv, fail_log, disk, hist,
                   report, printed>>

\* ------------------------------------------- between two runs of compile()
\* what the run that just ended returned, and the units a compile() started
\* now would judge Fresh
Snapshot ==
    {[result |-> result,
      fresh |-> {v \in Units : ~ForceRebuild /\ IsFresh(v)}]}

CanChange(u) ==
    /\ pc = "done"
    /\ run = "first"
    /\ u \notin changed
    /\ Cardinality(changed) < MaxChanges

Change(u) ==
    /\ changed' = changed \cup {u}
    /\ last_run' = IF last_run = {} THEN Snapshot ELSE last_run
    /\ clock' = clock + 1
    /\ UNCHANGED <<bcx, outside, prep, lock, jobserver, rmeta_required, primary_packages,
                   build_script_outputs,
                   to_doc_test, pc, result, state, fresh, queue_deps,
                   rmeta_produced, tokens, first_error, interrupted, argv,
                   fail_log, stored, timestamp, run, report, printed>>

\* the user edits the source file of u
TouchSource(u) ==
    /\ CanChange(u)
    /\ source[u].exists
    /\ source' = [source EXCEPT ![u] = [exists |-> TRUE, mtime |-> clock + 1]]
    /\ UNCHANGED flags
    /\ Change(u)

\* the user removes the source file of u
RemoveSource(u) ==
    /\ CanChange(u)
    /\ source[u].exists
    /\ source' = [source EXCEPT ![u].exists = FALSE]
    /\ UNCHANGED flags
    /\ Change(u)

\* a flag, an environment input or the compiler of u changes
ChangeFlags(u) ==
    /\ CanChange(u)
    /\ flags' = [flags EXCEPT ![u] = flags[u] + 1]
    /\ UNCHANGED source
    /\ Change(u)

\* compile() is called again, on a new BuildRunner and a new JobQueue
Recompile ==
    /\ pc = "done"
    /\ run = "first"
    /\ run' = "second"
    /\ last_run' = IF last_run = {} THEN Snapshot ELSE last_run
    /\ clock' = clock + 1
    /\ jobserver' = NewJobserver(jobserver_from_env, jobs)
    /\ primary_packages' = {}
    /\ rmeta_required' = {}
    /\ build_script_outputs' = {}
    /\ to_doc_test' = [u \in Units |-> {}]
    /\ pc' = "lock"
    /\ result' = <<>>
    /\ state' = [u \in Units |-> "Pending"]
    /\ fresh' = [u \in Units |-> FALSE]
    /\ queue_deps' = [u \in Units |-> {}]
    /\ rmeta_produced' = {}
    /\ tokens' = 0
    /\ first_error' = <<>>
    /\ interrupted' = FALSE
    /\ argv' = [u \in Units |-> {}]
    /\ fail_log' = <<>>
    /\ printed' = [u \in Units |-> {}]
    /\ metadata_for_doc_units' = [u \in Units |-> {}]
    /\ UNCHANGED <<bcx, outside, lock, prepared, writer, disk, changed, report>>

\* ------------------------------------------------------------ make_dep_path
\* A str is the sequence of the UTF-8 bytes of its characters; the byte
\* <<c, i>> is the i-th byte of the encoding of the character c.
AsciiChars == {"a", "B", "/", "1", "2", "3", "b"}
\* the combining circumflex follows a base character and is drawn over it;
\* c_circumflex is the letter that has the circumflex in itself
NameChars == {"a", "B", "c_circumflex", "combining_circumflex"}
Utf8Len(c) == IF c \in AsciiChars THEN 1 ELSE 2

RECURSIVE Encode(_)
\* the bytes of a sequence of characters (String::collect, format!)
Encode(chars) ==
    IF chars = <<>> THEN <<>>
    ELSE [i \in 1..Utf8Len(Head(chars)) |-> <<Head(chars), i>>]
             \o Encode(Tail(chars))

RECURSIVE Chars(_)
\* str::chars: the characters of well-formed UTF-8
Chars(bytes) ==
    IF bytes = <<>> THEN <<>>
    ELSE <<bytes[1][1]>>
             \o Chars(SubSeq(bytes, Utf8Len(bytes[1][1]) + 1, Len(bytes)))

\* Iterator::take and Iterator::skip
Take(seq, n) == SubSeq(seq, 1, IF Len(seq) < n THEN Len(seq) ELSE n)
Skip(seq, n) == SubSeq(seq, n + 1, Len(seq))

ToLower(c) == IF c = "B" THEN "b" ELSE c

\* variant: the prefix is made of the lower-cased name
MakeDepPath_Lowercase(dep_name, prefix_only) ==
    LET slash == IF prefix_only THEN <<>> ELSE Encode(<<"/">>)
        name == IF prefix_only THEN <<>> ELSE dep_name
        chars == [i \in 1..Len(Chars(dep_name)) |-> ToLower(Chars(dep_name)[i])]
        count == Len(Take(chars, 4))
    IN  IF count = 1 THEN Encode(<<"1">>) \o slash \o name
        ELSE IF count = 2 THEN Encode(<<"2">>) \o slash \o name
        ELSE IF count = 3
        THEN LET first_symbol == Encode(Take(chars, 1))
             IN  Encode(<<"3", "/">>) \o first_symbol \o slash \o name
        ELSE LET first_symbol == Encode(Take(chars, 2))
                 second_symbol == Encode(Take(Skip(chars, 2), 2))
             IN  first_symbol \o Encode(<<"/">>) \o second_symbol
                     \o slash \o name

\* variant: the name follows the prefix without a slash
MakeDepPath_NoSlash(dep_name, prefix_only) ==
    LET slash == <<>>
        name == IF prefix_only THEN <<>> ELSE dep_name
        chars == Chars(dep_name)
        count == Len(Take(chars, 4))
    IN  IF count = 1 THEN Encode(<<"1">>) \o slash \o name
        ELSE IF count = 2 THEN Encode(<<"2">>) \o slash \o name
        ELSE IF count = 3
        THEN LET first_symbol == Encode(Take(chars, 1))
             IN  Encode(<<"3", "/">>) \o first_symbol \o slash \o name
        ELSE LET first_symbol == Encode(Take(chars, 2))
                 second_symbol == Encode(Take(Skip(chars, 2), 2))
             IN  first_symbol \o Encode(<<"/">>) \o second_symbol
                     \o slash \o name

\* variant: the name is measured and cut in bytes
MakeDepPath_Bytes(dep_name, prefix_only) ==
    LET slash == IF prefix_only THEN <<>> ELSE Encode(<<"/">>)
        name == IF prefix_only THEN <<>> ELSE dep_name
        count == Len(Take(dep_name, 4))
    IN  IF count = 1 THEN Encode(<<"1">>) \o slash \o name
        ELSE IF count = 2 THEN Encode(<<"2">>) \o slash \o name
        ELSE IF count = 3
        THEN LET first_symbol == Take(dep_name, 1)
             IN  Encode(<<"3", "/">>) \o first_symbol \o slash \o name
        ELSE LET first_symbol == Take(dep_name, 2)
                 second_symbol == Take(Skip(dep_name, 2), 2)
             IN  first_symbol \o Encode(<<"/">>) \o second_symbol
                     \o slash \o name

\* make_dep_path(dep_name, prefix_only)
MakeDepPath(dep_name, prefix_only) ==
    LET slash == IF prefix_only THEN <<>> ELSE Encode(<<"/">>)
        name == IF prefix_only THEN <<>> ELSE dep_name
        chars == Chars(dep_name)
        count == Len(Take(chars, 4))
    IN  IF count = 1 THEN Encode(<<"1">>) \o slash \o name
        ELSE IF count = 2 THEN Encode(<<"2">>) \o slash \o name
        ELSE IF count = 3
        THEN LET first_symbol == Encode(Take(chars, 1))
             IN  Encode(<<"3", "/">>) \o first_symbol \o slash \o name
        ELSE LET first_symbol == Encode(Take(chars, 2))
                 second_symbol == Encode(Take(Skip(chars, 2), 2))
             IN  first_symbol \o Encode(<<"/">>) \o second_symbol
                     \o slash \o name

\* a caller asks for the index path of a dependency
MakeDepPathCall ==
    /\ dep_path = <<>>
    /\ dep_path' = MakeDepPath(lookup_name, lookup_prefix_only)
    /\ UNCHANGED <<build, sbom, target_info, du_state, lock_file, lookup_name,
                   lookup_prefix_only>>

\* ---------------------------------------------------------- collect_packages
\* the UnitDeps of `unit` in the unit graph: the unit depended on and the
\* name it is known by in the parent
UnitDeps(unit) ==
    {[unit |-> d, extern_crate_name |-> extern_crate_name[<<unit, d>>]] :
        d \in unit_graph[unit]}

\* Ord of UnitDep: by unit, then by name
NameRank(n) == IF n = "bar" THEN 1 ELSE 2
LessDep(a, b) ==
    \/ a.unit < b.unit
    \/ a.unit = b.unit
       /\ NameRank(a.extern_crate_name) < NameRank(b.extern_crate_name)

\* BTreeSet::first
FirstDep(S) == CHOOSE a \in S : \A b \in S \ {a} : LessDep(a, b)

RECURSIVE IterDeps(_)
\* BTreeSet::iter: the elements in ascending order
IterDeps(S) ==
    IF S = {} THEN <<>>
    ELSE <<FirstDep(S)>> \o IterDeps(S \ {FirstDep(S)})

\* Iterator::position in visited.iter(), counted from 0: {} is None
Position(visited, dep) ==
    IF dep \in visited
    THEN {Cardinality({v \in visited : LessDep(v, dep)})}
    ELSE {}

\* SbomPackage::new: the entry describes the UnitDep it was made for
NewSbomPackage(unit_dep) == [unit_dep |-> unit_dep, dependencies |-> <<>>]

\* output_sbom calls collect_packages(build_runner, unit)
CollectPackages(unit) ==
    /\ sbom_pc = "idle"
    /\ sbom_unit' = unit
    /\ packages' = <<>>
    /\ queue' = UnitDeps(unit)
    /\ visited_dependencies' = {}
    /\ sbom_pc' = "collect"
    /\ UNCHANGED <<build, registry, target_info, du_state, lock_file, extern_crate_name>>

\* variant: a UnitDep is visited every time it is popped
PopFirst_NoVisited ==
    /\ sbom_pc = "collect"
    /\ queue # {}
    /\ LET dependency == FirstDep(queue)
       IN  /\ packages' = Append(packages, NewSbomPackage(dependency))
           /\ queue' = (queue \ {dependency}) \cup UnitDeps(dependency.unit)
           /\ visited_dependencies' = visited_dependencies \cup {dependency}
    /\ UNCHANGED <<build, registry, target_info, du_state, lock_file, extern_crate_name, sbom_unit, sbom_pc>>

\* one turn of `while let Some(dependency) = queue.pop_first()`
PopFirst ==
    /\ sbom_pc = "collect"
    /\ queue # {}
    /\ LET dependency == FirstDep(queue)
       IN  IF dependency \in visited_dependencies
           THEN /\ queue' = queue \ {dependency}
                /\ UNCHANGED <<packages, visited_dependencies>>
           ELSE /\ packages' = Append(packages, NewSbomPackage(dependency))
                /\ queue' = (queue \ {dependency})
                                \cup UnitDeps(dependency.unit)
                /\ visited_dependencies' =
                       visited_dependencies \cup {dependency}
    /\ UNCHANGED <<build, registry, target_info, du_state, lock_file, extern_crate_name, sbom_unit, sbom_pc>>

RECURSIVE Indices(_, _)
\* filter_map over the dependencies, in order: their positions in visited
Indices(deps, visited) ==
    IF deps = <<>> THEN <<>>
    ELSE LET at == Position(visited, Head(deps))
         IN  (IF at = {} THEN <<>> ELSE <<The(at)>>)
                 \o Indices(Tail(deps), visited)

\* the queue is empty: the index pass over visited_dependencies.iter()
\* .enumerate(), and the return of packages
CollectIndices ==
    /\ sbom_pc = "collect"
    /\ queue = {}
    /\ LET order == IterDeps(visited_dependencies)
       IN  packages' =
               [index \in 1..Len(packages) |->
                   IF index <= Len(order)
                   THEN [packages[index] EXCEPT !.dependencies =
                            @ \o Indices(IterDeps(UnitDeps(order[index].unit)),
                                         visited_dependencies)]
                   ELSE packages[index]]
    /\ sbom_pc' = "returned"
    /\ UNCHANGED <<build, registry, target_info, du_state, lock_file, extern_crate_name, sbom_unit, queue,
                   visited_dependencies>>

\* ---------------------------------------------------------------- TargetInfo
KNOWN_CRATE_TYPES ==
    <<"bin", "rlib", "dylib", "cdylib", "staticlib", "proc-macro">>

\* str::contains among the words rustc writes about crate types: dylib is
\* part of cdylib, and lib of every crate type whose name ends in lib
StrContains(word, pat) ==
    \/ word = pat
    \/ word = "cdylib" /\ pat = "dylib"
    \/ word \in {"rlib", "dylib", "cdylib", "staticlib"} /\ pat = "lib"

\* a line is the sequence of its words; `line.contains(s)`
LineContains(line, pat) ==
    \E k \in 1..Len(line) : StrContains(line[k], pat)

RECURSIVE SplitParts(_, _)
\* line.split("___"): the parts of a line between the separators, `part`
\* being the one that is read
SplitParts(line, part) ==
    IF line = <<>> THEN <<part>>
    ELSE IF Head(line) = "___"
         THEN <<part>> \o SplitParts(Tail(line), <<>>)
         ELSE SplitParts(Tail(line), Append(part, Head(line)))

\* parse_crate_type(crate_type, error, lines): the result and where the
\* line cursor is afterwards
ParseCrateType(crate_type, error, lines, cursor) ==
    LET not_supported ==
            \E k \in 1..Len(error) :
                /\ \/ LineContains(error[k], "unsupported crate type")
                   \/ LineContains(error[k], "unknown crate type")
                /\ LineContains(error[k], crate_type)
    IN  IF not_supported
        THEN [result |-> <<"ok", {}>>, cursor |-> cursor]
        ELSE IF cursor > Len(lines)
        THEN [result |-> <<"err", "malformed output">>, cursor |-> cursor]
        ELSE LET parts == SplitParts(lines[cursor], <<>>)
             IN  IF Len(parts) < 2
                 THEN [result |-> <<"err", "cannot parse">>,
                       cursor |-> cursor + 1]
                 ELSE [result |-> <<"ok", {<<parts[1], parts[2]>>}>>,
                       cursor |-> cursor + 1]

RECURSIVE ParseKnown(_, _)
\* the loop over KNOWN_CRATE_TYPES from the i-th on, with the map and the
\* cursor so far in st
ParseKnown(i, st) ==
    IF i > Len(KNOWN_CRATE_TYPES) \/ st.result # <<>> THEN st
    ELSE LET out == ParseCrateType(KNOWN_CRATE_TYPES[i], rustc_stderr,
                                   rustc_stdout, st.cursor)
         IN  IF out.result[1] = "err"
             THEN [st EXCEPT !.result = out.result, !.cursor = out.cursor]
             ELSE ParseKnown(i + 1,
                     [st EXCEPT !.map = Insert(@, KNOWN_CRATE_TYPES[i],
                                               out.result[2]),
                                !.cursor = out.cursor])

\* TargetInfo::new: rustc was asked about every known crate type, with
\* --print=sysroot and --print=cfg and, if that failed, without them; what
\* it wrote is parsed. The sysroot is the one of Kind::Host on a platform
\* that is not windows, and the cfg lines are left unparsed.
TargetInfoNew ==
    /\ ti_result = <<>>
    /\ LET has_cfg_and_sysroot == probe = "with_cfg"
           st == ParseKnown(1, [map |-> {}, cursor |-> 1, result |-> <<>>])
       IN  IF probe = "failed"
           THEN /\ ti_result' = <<"err", "failed to run rustc">>
                /\ UNCHANGED <<crate_types, sysroot_libdir>>
           ELSE IF st.result # <<>>
           THEN /\ ti_result' = st.result
                /\ UNCHANGED <<crate_types, sysroot_libdir>>
           ELSE IF has_cfg_and_sysroot /\ st.cursor > Len(rustc_stdout)
           THEN /\ ti_result' = <<"err", "sysroot missing">>
                /\ UNCHANGED <<crate_types, sysroot_libdir>>
           ELSE /\ ti_result' = <<"ok">>
                /\ crate_types' = st.map
                /\ sysroot_libdir' =
                       IF has_cfg_and_sysroot
                       THEN {Append(rustc_stdout[st.cursor], "lib")}
                       ELSE {}
    /\ UNCHANGED <<build, registry, sbom, du_state, lock_file, probe, rustc_stderr, rustc_stdout,
                   discover, ft_args, ft_result>>

\* a target triple is the sequence of its parts between the hyphens
EndsWith(triple, parts) ==
    /\ Len(triple) >= Len(parts)
    /\ SubSeq(triple, Len(triple) - Len(parts) + 1, Len(triple)) = parts
\* target_triple.ends_with("-msvc")
EndsWithHyphen(triple, part) ==
    Len(triple) > 1 /\ triple[Len(triple)] = part
\* target_triple.starts_with("wasm32-")
StartsWithHyphen(triple, part) ==
    Len(triple) > 1 /\ triple[1] = part
\* target_triple.contains("-apple-")
ContainsHyphens(triple, part) ==
    \E k \in 2..(Len(triple) - 1) : triple[k] = part

\* crate_type.ends_with("dylib")
EndsWithDylib(crate_type) == crate_type \in {"dylib", "cdylib"}

\* discover_crate_type: rustc is asked about this one crate type
DiscoverCrateType(crate_type, disc) ==
    IF disc[1] = "err" THEN <<"err", "failed to run rustc">>
    ELSE ParseCrateType(crate_type, disc[2], disc[3], 1).result

\* file_types with a .pdb for every binary of a target that ends in -msvc
FileTypes_Both(crate_type, flavor, target_kind, target_triple, map, disc) ==
    LET info == IF Get(map, crate_type) # {}
                THEN <<"ok", CHOOSE v \in Get(map, crate_type) : TRUE>>
                ELSE DiscoverCrateType(crate_type, disc)
    IN  IF info[1] = "err" THEN [result |-> info, map |-> map]
        ELSE LET map2 == Insert(map, crate_type, info[2])
             IN  IF info[2] = {} THEN [result |-> <<"ok", {}>>, map |-> map2]
                 ELSE
        LET ps == CHOOSE v \in info[2] : TRUE
            prefix == ps[1]
            suffix == ps[2]
            FT(sfx, flv, hyph) ==
                [suffix |-> sfx, prefix |-> prefix, flavor |-> flv,
                 should_replace_hyphens |-> hyph]
            ret1 == <<FT(suffix, flavor, FALSE)>>
            ret2 == IF /\ EndsWith(target_triple, <<"pc", "windows", "msvc">>)
                       /\ EndsWithDylib(crate_type)
                       /\ suffix = <<".dll">>
                    THEN Append(ret1, FT(<<".dll.lib">>, "Normal", FALSE))
                    ELSE ret1
            ret3 == IF /\ StartsWithHyphen(target_triple, "wasm32")
                       /\ crate_type = "bin"
                       /\ suffix = <<".js">>
                    THEN Append(ret2, FT(<<".wasm">>, "Normal", TRUE))
                    ELSE ret2
            ret4 == IF target_kind = "Bin"
                       /\ ContainsHyphens(target_triple, "apple")
                    THEN Append(ret3, FT(<<".dSYM">>, "DebugInfo", FALSE))
                    ELSE ret3
            ret5 == IF target_kind = "Bin"
                       /\ EndsWithHyphen(target_triple, "msvc")
                    THEN Append(ret4, FT(<<".pdb">>, "DebugInfo", FALSE))
                    ELSE ret4
        IN  [result |-> <<"ok", {ret5}>>, map |-> map2]

\* TargetInfo::file_types: the result and the map of crate types afterwards
FileTypes(crate_type, flavor, target_kind, target_triple, map, disc) ==
    LET info == IF Get(map, crate_type) # {}
                THEN <<"ok", CHOOSE v \in Get(map, crate_type) : TRUE>>
                ELSE DiscoverCrateType(crate_type, disc)
    IN  IF info[1] = "err" THEN [result |-> info, map |-> map]
        ELSE LET map2 == Insert(map, crate_type, info[2])
             IN  IF info[2] = {} THEN [result |-> <<"ok", {}>>, map |-> map2]
                 ELSE
        LET ps == CHOOSE v \in info[2] : TRUE
            prefix == ps[1]
            suffix == ps[2]
            FT(sfx, flv, hyph) ==
                [suffix |-> sfx, prefix |-> prefix, flavor |-> flv,
                 should_replace_hyphens |-> hyph]
            ret1 == <<FT(suffix, flavor, FALSE)>>
            ret2 == IF /\ EndsWith(target_triple, <<"pc", "windows", "msvc">>)
                       /\ EndsWithDylib(crate_type)
                       /\ suffix = <<".dll">>
                    THEN Append(ret1, FT(<<".dll.lib">>, "Normal", FALSE))
                    ELSE ret1
            ret3 == IF /\ StartsWithHyphen(target_triple, "wasm32")
                       /\ crate_type = "bin"
                       /\ suffix = <<".js">>
                    THEN Append(ret2, FT(<<".wasm">>, "Normal", TRUE))
                    ELSE ret2
            ret4 == IF target_kind = "Bin"
                    THEN IF ContainsHyphens(target_triple, "apple")
                         THEN Append(ret3,
                                     FT(<<".dSYM">>, "DebugInfo", FALSE))
                         ELSE IF EndsWithHyphen(target_triple, "msvc")
                         THEN Append(ret3, FT(<<".pdb">>, "DebugInfo", FALSE))
                         ELSE ret3
                    ELSE ret3
        IN  [result |-> <<"ok", {ret4}>>, map |-> map2]

\* FileType::filename
Filename(file_type, stem) ==
    LET replaced == IF file_type.should_replace_hyphens
                    THEN [k \in 1..Len(stem) |->
                             IF stem[k] = "-" THEN "_" ELSE stem[k]]
                    ELSE stem
    IN  file_type.prefix \o replaced \o file_type.suffix

\* the crate types, flavors, target kinds and triples file_types is asked
\* about; lib is no known crate type, so that rustc is asked about it
AskedCrateTypes == {"bin", "rlib", "dylib", "cdylib", "lib"}
FileFlavors == {"Normal", "Linkable"}
TargetKinds == {"Bin", "Lib"}
Triples ==
    {<<"x86_64", "pc", "windows", "msvc">>,
     <<"aarch64", "uwp", "windows", "msvc">>,
     <<"x86_64", "pc", "windows", "gnu">>,
     <<"wasm32", "unknown", "emscripten">>,
     <<"x86_64", "apple", "darwin">>,
     <<"x86_64", "unknown", "linux", "gnu">>,
     <<"x86_64", "apple", "custom", "msvc">>}

\* one call of file_types on the TargetInfo
FileTypesCall(crate_type, flavor, target_kind, target_triple) ==
    /\ ti_result = <<"ok">>
    /\ ft_args = {}
    /\ LET out == FileTypes(crate_type, flavor, target_kind, target_triple,
                            crate_types, discover)
       IN  /\ ft_result' = out.result
           /\ crate_types' = out.map
    /\ ft_args' = {[crate_type |-> crate_type, flavor |-> flavor,
                    kind |-> target_kind, target_triple |-> target_triple]}
    /\ UNCHANGED <<build, registry, sbom, du_state, lock_file, probe, rustc_stderr, rustc_stdout,
                   discover, sysroot_libdir, ti_result>>

\* ------------------------------------------------------------------------ du
Entries == 1..NumEntries
Walkers == 1..NumWalkers
U64 == 2 ^ U64Bits

\* the byte sizes of files: a small one, and one above half of what the
\* counter can hold
Lens == {1, U64 \div 2 + 1}

WalkerIdle == [pc |-> "idle", entry |-> 0]

\* the patterns are built (lines 29-33), and the walker is
DuStart ==
    /\ du_pc = "start"
    /\ IF patterns_ok
       THEN /\ du_pc' = "walking"
            /\ UNCHANGED du_result
       ELSE /\ du_pc' = "done"
            /\ du_result' = <<"err", "pattern">>
    /\ UNCHANGED <<build, registry, sbom, target_info, lock_file, tree,
                   variant, overflow_checks, patterns_ok, walked, total,
                   total_lock, walker, local, walk_err, quit, panicked>>

\* a thread of the walker is handed an entry and runs the closure on it, up
\* to the addition
Visit(t, e) ==
    /\ du_pc = "walking"
    /\ walker[t].pc = "idle"
    /\ ~quit
    /\ e \notin walked
    /\ walked' = walked \cup {e}
    /\ IF tree[e].kind \in {"bad_entry", "bad_metadata"}
       THEN /\ walk_err' = {e}
            /\ quit' = TRUE
            /\ UNCHANGED walker
       ELSE /\ walker' = [walker EXCEPT ![t] =
                             IF tree[e].kind = "file"
                             THEN [pc |-> "add", entry |-> e]
                             ELSE WalkerIdle]
            /\ UNCHANGED <<walk_err, quit>>
    /\ UNCHANGED <<build, registry, sbom, target_info, lock_file, tree,
                   variant, overflow_checks, patterns_ok, total, total_lock,
                   local, panicked, du_pc, du_result>>

\* total.fetch_add(meta.len(), Ordering::Relaxed), which wraps
FetchAdd(t) ==
    /\ variant = "atomic"
    /\ walker[t].pc = "add"
    /\ total' = (total + tree[walker[t].entry].len) % U64
    /\ walker' = [walker EXCEPT ![t] = WalkerIdle]
    /\ UNCHANGED <<build, registry, sbom, target_info, lock_file, tree,
                   variant, overflow_checks, patterns_ok, walked, total_lock,
                   local, walk_err, quit, panicked, du_pc, du_result>>

\* a mutex held by nobody can be taken
CanLock_Always(holders) == TRUE
CanLock(holders) == holders = {}

\* total.lock().unwrap(): the thread waits for the mutex, and panics if a
\* thread panicked while it held it
LockTotal(t) ==
    /\ variant = "mutex"
    /\ walker[t].pc = "add"
    /\ IF panicked
       THEN /\ walker' = [walker EXCEPT ![t] = WalkerIdle]
            /\ UNCHANGED total_lock
       ELSE /\ CanLock(total_lock)
            /\ total_lock' = total_lock \cup {t}
            /\ walker' = [walker EXCEPT ![t].pc = "locked"]
    /\ UNCHANGED <<build, registry, sbom, target_info, lock_file, tree,
                   variant, overflow_checks, patterns_ok, walked, total,
                   local, walk_err, quit, panicked, du_pc, du_result>>

\* *lock += meta.len(): the counter is read
LoadTotal(t) ==
    /\ walker[t].pc = "locked"
    /\ local' = [local EXCEPT ![t] = total]
    /\ walker' = [walker EXCEPT ![t].pc = "loaded"]
    /\ UNCHANGED <<build, registry, sbom, target_info, lock_file, tree,
                   variant, overflow_checks, patterns_ok, walked, total,
                   total_lock, walk_err, quit, panicked, du_pc, du_result>>

\* the sum is written and the guard dropped; a sum that does not fit wraps
\* or, in a build that checks overflow, panics
StoreTotal(t) ==
    /\ walker[t].pc = "loaded"
    /\ LET sum == local[t] + tree[walker[t].entry].len
       IN  IF sum >= U64 /\ overflow_checks
           THEN /\ panicked' = TRUE
                /\ UNCHANGED total
           ELSE /\ total' = sum % U64
                /\ UNCHANGED panicked
    /\ total_lock' = total_lock \ {t}
    /\ walker' = [walker EXCEPT ![t] = WalkerIdle]
    /\ UNCHANGED <<build, registry, sbom, target_info, lock_file, tree,
                   variant, overflow_checks, patterns_ok, walked, local, walk_err,
                   quit, du_pc, du_result>>

\* walker.run returns when every thread is done, and passes a panic on;
\* then the error slot is looked at, and then the counter
DuReturn ==
    /\ du_pc = "walking"
    /\ \A t \in Walkers : walker[t].pc = "idle"
    /\ quit \/ walked = Entries
    /\ du_pc' = "done"
    /\ du_result' = IF panicked THEN <<"panic">>
                    ELSE IF walk_err # {} THEN <<"err", "walk">>
                    ELSE <<"ok", total>>
    /\ UNCHANGED <<build, registry, sbom, target_info, lock_file, tree,
                   variant, overflow_checks, patterns_ok, walked, total,
                   total_lock, walker, local, walk_err, quit, panicked>>

\* ----------------------------------------------------------------- CargoLock
\* CargoLock::lock_kind: the lock kind of the configuration key
\* build.lock-kind
LockKindOf(value) ==
    IF value = {} THEN <<"ok", "NonBlocking">>
    ELSE IF value = {"non-blocking"} THEN <<"ok", "NonBlocking">>
    ELSE IF value = {"blocking"} THEN <<"ok", "Blocking">>
    ELSE <<"err", "Failed to parse value">>

\* lock_kind is called, and with the kind it returns a CargoLock is made
\* and locked
LockKind ==
    /\ cl_pc = "config"
    /\ lock_kind' = LockKindOf(config)
    /\ cl_pc' = IF LockKindOf(config)[1] = "ok" THEN "create_dir" ELSE "done"
    /\ UNCHANGED <<build, registry, sbom, target_info, du_state, config,
                   lock_mode, holder, lock_dir, io_ok, contended, cl_result>>

\* fs::create_dir_all(lock_dir) works for a directory that is there or can
\* be made, and not while another process is making it
CreateDirAll(dir) == dir \in {"exists", "creatable"}

\* the first attempt to create the parent directory
CreateDir ==
    /\ cl_pc = "create_dir"
    /\ IF CreateDirAll(lock_dir)
       THEN /\ lock_dir' = "exists"
            /\ cl_pc' = "any_lock"
       ELSE /\ cl_pc' = "sleep_dir"
            /\ UNCHANGED lock_dir
    /\ UNCHANGED <<build, registry, sbom, target_info, du_state, config,
                   lock_kind, lock_mode, holder, io_ok, contended,
                   cl_result>>

\* the second one, after sleep_ms(100)
CreateDirAgain ==
    /\ cl_pc = "sleep_dir"
    /\ IF CreateDirAll(lock_dir)
       THEN /\ lock_dir' = "exists"
            /\ cl_pc' = "any_lock"
            /\ UNCHANGED cl_result
       ELSE /\ cl_pc' = "done"
            /\ cl_result' = <<"err", "Failed to create parent directory">>
            /\ UNCHANGED lock_dir
    /\ UNCHANGED <<build, registry, sbom, target_info, du_state, config,
                   lock_kind, lock_mode, holder, io_ok, contended>>

\* the lock of another actor stands in the way of a lock of this mode
Contention(held, wanted) ==
    held = "Write" \/ (held = "Read" /\ wanted = "Write")

\* what any_lock returns under contention: a non-blocking lock fails at
\* once, a blocking one waits, or fails with EDEADLK
AnyLockContended(lk) ==
    IF lk = "NonBlocking" THEN {"EAGAIN"} ELSE {"wait", "EDEADLK"}

\* one turn of the loop: self.inner.any_lock(self.kind.clone())
AnyLock ==
    /\ cl_pc = "any_lock"
    /\ IF ~io_ok
       THEN /\ cl_pc' = "done"
            /\ cl_result' = <<"err", "IoError">>
            /\ UNCHANGED <<holder, contended>>
       ELSE IF ~Contention(holder, lock_mode)
       THEN /\ cl_pc' = "done"
            /\ cl_result' = <<"ok">>
            /\ UNCHANGED <<holder, contended>>
       ELSE /\ contended' = TRUE
            /\ \E out \in AnyLockContended(lock_kind[2]) :
                  IF out = "wait"
                  THEN /\ cl_pc' = "waiting"
                       /\ UNCHANGED cl_result
                  ELSE IF out = "EDEADLK"
                  THEN /\ cl_pc' = "sleep_lock"
                       /\ UNCHANGED cl_result
                  ELSE /\ cl_pc' = "done"
                       /\ cl_result' = <<"err", out>>
            /\ UNCHANGED holder
    /\ UNCHANGED <<build, registry, sbom, target_info, du_state, config,
                   lock_kind, lock_mode, lock_dir, io_ok>>

\* sleep_ms(100); continue
SleepAndRetry ==
    /\ cl_pc = "sleep_lock"
    /\ cl_pc' = "any_lock"
    /\ UNCHANGED <<build, registry, sbom, target_info, du_state, config,
                   lock_kind, lock_mode, holder, lock_dir, io_ok, contended,
                   cl_result>>

\* the blocking any_lock returns once the lock is free for this mode
Wake ==
    /\ cl_pc = "waiting"
    /\ ~Contention(holder, lock_mode)
    /\ cl_pc' = "done"
    /\ cl_result' = <<"ok">>
    /\ UNCHANGED <<build, registry, sbom, target_info, du_state, config,
                   lock_kind, lock_mode, holder, lock_dir, io_ok, contended>>

\* another actor locks the file, or lets go of it, while this one has not
\* got it
OtherActor(held) ==
    /\ cl_pc \in {"config", "create_dir", "sleep_dir", "any_lock",
                  "sleep_lock", "waiting"}
    /\ held # holder
    /\ holder' = held
    /\ UNCHANGED <<build, registry, sbom, target_info, du_state, config,
                   lock_kind, lock_mode, lock_dir, io_ok, contended, cl_pc,
                   cl_result>>

\* the process that was making the parent directory is done
DirAppears ==
    /\ lock_dir = "racing"
    /\ lock_dir' = "exists"
    /\ UNCHANGED <<build, registry, sbom, target_info, du_state, config,
                   lock_kind, lock_mode, holder, io_ok, contended, cl_pc,
                   cl_result>>

\* ------------------------------------------------------- the state machine
\* what BuildRunner::new and JobQueue::new leave
Constructed ==
    /\ jobserver = NewJobserver(jobserver_from_env, jobs)
    /\ primary_packages = {}
    /\ rmeta_required = {}
    /\ metadata_for_doc_units = [u \in Units |-> {}]
    /\ lock = "none"
    /\ build_script_outputs = {}
    /\ to_doc_test = [u \in Units |-> {}]
    /\ pc = "lock"
    /\ result = <<>>
    /\ state = [u \in Units |-> "Pending"]
    /\ fresh = [u \in Units |-> FALSE]
    /\ queue_deps = [u \in Units |-> {}]
    /\ rmeta_produced = {}
    /\ tokens = 0
    /\ first_error = <<>>
    /\ interrupted = FALSE
    /\ argv = [u \in Units |-> {}]
    /\ fail_log = <<>>
    /\ printed = [u \in Units |-> {}]
    /\ warnings = <<>>
    /\ cc = <<>>

\* an empty target directory
CleanDisk ==
    /\ stored = [u \in Units |-> {}]
    /\ timestamp = [u \in Units |-> 0]
    /\ source = [u \in Units |-> [exists |-> TRUE, mtime |-> 0]]
    /\ flags = [u \in Units |-> 0]
    /\ clock = 1
    /\ run = "first"
    /\ changed = {}
    /\ last_run = {}
    /\ prepared = {}
    /\ writer = FALSE

\* no dependency is looked up in the registry index
NoLookup ==
    /\ lookup_name = <<>>
    /\ lookup_prefix_only = TRUE
    /\ dep_path = <<>>

\* output_sbom is not called
NoSbom ==
    /\ extern_crate_name = [e \in Units \X Units |-> "foo"]
    /\ sbom_unit = 1
    /\ sbom_pc = "idle"
    /\ queue = {}
    /\ visited_dependencies = {}
    /\ packages = <<>>

\* no compiler is asked about a target
NoTargetInfo ==
    /\ probe = "failed"
    /\ rustc_stderr = <<>>
    /\ rustc_stdout = <<>>
    /\ discover = <<"err">>
    /\ crate_types = {}
    /\ sysroot_libdir = {}
    /\ ti_result = <<>>
    /\ ft_args = {}
    /\ ft_result = <<>>

\* du is not called
NoDu ==
    /\ tree = <<>>
    /\ variant = "atomic"
    /\ overflow_checks = FALSE
    /\ patterns_ok = TRUE
    /\ walked = {}
    /\ total = 0
    /\ total_lock = {}
    /\ walker = <<>>
    /\ local = <<>>
    /\ walk_err = {}
    /\ quit = FALSE
    /\ panicked = FALSE
    /\ du_pc = "idle"
    /\ du_result = <<>>

\* no CargoLock is made
NoLockFile ==
    /\ config = {}
    /\ lock_kind = <<>>
    /\ lock_mode = "Read"
    /\ holder = "none"
    /\ lock_dir = "exists"
    /\ io_ok = TRUE
    /\ contended = FALSE
    /\ cl_pc = "idle"
    /\ cl_result = <<>>

\* nothing outside compile() is going on
Idle == NoLookup /\ NoSbom /\ NoTargetInfo /\ NoDu /\ NoLockFile

\* no build is going on: a constructed BuildRunner on units without
\* dependencies
NoBuild ==
    /\ unit_graph = [u \in Units |-> {}]
    /\ mode = [u \in Units |-> "Build"]
    /\ requires_upstream_objects = [u \in Units |-> FALSE]
    /\ pkg = [u \in Units |-> "p1"]
    /\ is_lib = [u \in Units |-> TRUE]
    /\ crate_name = [u \in Units |-> "foo"]
    /\ kind = [u \in Units |-> "Target"]
    /\ outputs = [u \in Units |-> <<>>]
    /\ shell_ok = TRUE
    /\ roots = Units
    /\ jobserver_from_env = {}
    /\ jobs = 1
    /\ force_rebuild = FALSE

Acyclic(g) == \A u \in Units : g[u] \subseteq 1..(u - 1)

\* units whose targets and outputs play no part
PlainTargets ==
    /\ is_lib = [u \in Units |-> TRUE]
    /\ crate_name = [u \in Units |-> "foo"]
    /\ kind = [u \in Units |-> "Target"]
    /\ outputs = [u \in Units |-> <<>>]
    /\ shell_ok = TRUE
    /\ roots = Roots

\* a graph of library, binary and check units of one package
Init ==
    /\ unit_graph \in {g \in [Units -> SUBSET Units] : Acyclic(g)}
    /\ mode \in [Units -> {"Build", "Check"}]
    /\ requires_upstream_objects \in [Units -> BOOLEAN]
    /\ \A u \in Units : requires_upstream_objects[u] => mode[u] = "Build"
    /\ pkg = [u \in Units |-> "p1"]
    /\ PlainTargets
    /\ \/ jobserver_from_env = {} /\ jobs \in 1..MaxJobs
       \/ jobserver_from_env = {MaxJobs} /\ jobs = 1
    /\ force_rebuild = FALSE
    /\ Constructed
    /\ CleanDisk
    /\ Idle

Next ==
    \/ \E ok \in BOOLEAN : AcquireLock(ok)
    \/ PrepareUnits
    \/ \E failed \in {{}} \cup {{l} : l \in Kinds} : Prepare(failed)
    \/ CheckCollisions
    \/ ComputeMetadataForDocUnits
    \/ CompileRoots
    \/ QueueExecute
    \/ \E u \in Units : Spawn(u)
    \/ \E u \in Units : RmetaProduced(u)
    \/ \E u \in Units, ok \in BOOLEAN : Finish(u, ok)
    \/ Interrupt
    \/ ExecuteReturn
    \/ Assemble

Spec == Init /\ [][Next]_vars

\* compile() when no job fails and no signal arrives
NextNoFailure ==
    \/ \E ok \in BOOLEAN : AcquireLock(ok)
    \/ PrepareUnits
    \/ \E failed \in {{}} \cup {{l} : l \in Kinds} : Prepare(failed)
    \/ CheckCollisions
    \/ ComputeMetadataForDocUnits
    \/ CompileRoots
    \/ QueueExecute
    \/ \E u \in Units : Spawn(u)
    \/ \E u \in Units : RmetaProduced(u)
    \/ \E u \in Units : Finish(u, TRUE)
    \/ ExecuteReturn
    \/ Assemble

\* the thread of compile() and of the queue runs on, and a compiler that
\* was started exits
SpecNoFailure == Init /\ [][NextNoFailure]_vars /\ WF_vars(NextNoFailure)

\* two consecutive runs of compile() on a graph of library units, one job at
\* a time, the user changing up to MaxChanges units in between
InitFresh ==
    /\ unit_graph \in {g \in [Units -> SUBSET Units] : Acyclic(g)}
    /\ mode = [u \in Units |-> "Build"]
    /\ requires_upstream_objects = [u \in Units |-> FALSE]
    /\ pkg = [u \in Units |-> "p1"]
    /\ PlainTargets
    /\ jobserver_from_env = {}
    /\ jobs = 1
    /\ force_rebuild \in BOOLEAN
    /\ Constructed
    /\ CleanDisk
    /\ Idle

NextFresh ==
    \/ \E ok \in BOOLEAN : AcquireLock(ok)
    \/ PrepareUnits
    \/ \E failed \in {{}} \cup {{l} : l \in Kinds} : Prepare(failed)
    \/ CheckCollisions
    \/ ComputeMetadataForDocUnits
    \/ CompileRoots
    \/ QueueExecute
    \/ \E u \in Units : Spawn(u)
    \/ \E u \in Units : RmetaProduced(u)
    \/ \E u \in Units, ok \in BOOLEAN : Finish(u, ok)
    \/ Interrupt
    \/ ExecuteReturn
    \/ Assemble
    \/ \E u \in Units : TouchSource(u)
    \/ \E u \in Units : RemoveSource(u)
    \/ \E u \in Units : ChangeFlags(u)
    \/ Recompile

SpecFresh == InitFresh /\ [][NextFresh]_vars

\* the unit graph builder's rules for build scripts and doctests: a
\* RunCustomBuild unit depends on exactly the Build unit of its package's
\* build script, is used by units of its own package only, one per unit;
\* nothing depends on a Doctest unit
WellFormedScripts ==
    /\ \A u \in Units : mode[u] = "RunCustomBuild" =>
          /\ \E b \in Units : /\ unit_graph[u] = {b}
                              /\ mode[b] = "Build"
                              /\ pkg[b] = pkg[u]
          /\ \A d \in Units : u \in unit_graph[d] => pkg[d] = pkg[u]
    /\ \A d \in Units :
          Cardinality({u \in unit_graph[d] : mode[u] = "RunCustomBuild"}) <= 1
    /\ \A u \in Units : mode[u] = "Doctest" => u \in Roots

\* one run of compile() on packages with build scripts and doctests
InitScript ==
    /\ unit_graph \in {g \in [Units -> SUBSET Units] : Acyclic(g)}
    /\ mode \in [Units -> {"Build", "RunCustomBuild", "Doctest"}]
    /\ requires_upstream_objects \in [Units -> BOOLEAN]
    /\ \A u \in Units : requires_upstream_objects[u] => mode[u] = "Build"
    /\ pkg \in [Units -> Pkgs]
    /\ pkg[1] = "p1"
    /\ WellFormedScripts
    /\ PlainTargets
    /\ jobserver_from_env = {}
    /\ jobs = MaxJobs
    /\ force_rebuild = FALSE
    /\ Constructed
    /\ CleanDisk
    /\ Idle

SpecScript == InitScript /\ [][Next]_vars

\* the targets check_collisions is given: documented libraries and binaries
\* of two packages, which rustdoc writes to a directory named after the
\* crate and the kind, other units, and build script runs; the user asked
\* for package p1, whose units depend on the others
UnitChoices ==
    {[mode |-> "Doc", pkg |-> p, is_lib |-> l, crate_name |-> n, kind |-> k,
      path |-> <<"doc", k, n>>] :
        p \in Pkgs, l \in BOOLEAN, n \in CrateNames, k \in Kinds}
    \cup {[mode |-> "Build", pkg |-> "p1", is_lib |-> TRUE,
           crate_name |-> "foo", kind |-> "Target", path |-> <<"deps", x>>] :
            x \in Paths}
    \cup {[mode |-> "RunCustomBuild", pkg |-> "p1", is_lib |-> FALSE,
           crate_name |-> "foo", kind |-> "Host", path |-> <<"build">>]}

InitColl ==
    /\ \E a \in [Units -> UnitChoices] :
          /\ mode = [u \in Units |-> a[u].mode]
          /\ pkg = [u \in Units |-> a[u].pkg]
          /\ is_lib = [u \in Units |-> a[u].is_lib]
          /\ crate_name = [u \in Units |-> a[u].crate_name]
          /\ kind = [u \in Units |-> a[u].kind]
          /\ outputs = [u \in Units |->
                          <<[path |-> a[u].path, hardlink |-> {},
                             export_path |-> {}]>>]
    /\ roots = {u \in Units : pkg[u] = "p1" /\ mode[u] # "RunCustomBuild"}
    /\ roots # {}
    /\ unit_graph = [u \in Units |-> IF u \in roots THEN Units \ roots ELSE {}]
    /\ requires_upstream_objects = [u \in Units |-> FALSE]
    /\ shell_ok \in BOOLEAN
    /\ jobserver_from_env = {}
    /\ jobs = 1
    /\ force_rebuild = FALSE
    /\ Constructed
    /\ CleanDisk
    /\ Idle

\* compile() up to the collision check
NextColl ==
    \/ \E ok \in BOOLEAN : AcquireLock(ok)
    \/ PrepareUnits
    \/ \E failed \in {{}} \cup {{l} : l \in Kinds} : Prepare(failed)
    \/ CheckCollisions

SpecColl == InitColl /\ [][NextColl]_vars

\* the output files check_collisions is given: every unit has one, in the
\* deps directory, which may be hard-linked into the destination directory
\* and exported into the artifact directory; build script runs are units too
OutputFiles ==
    {[path |-> <<"deps", x>>, hardlink |-> h, export_path |-> e] :
        x \in Paths,
        h \in {{}} \cup {{<<"dest", y>>} : y \in Paths},
        e \in {{}, {<<"artifact-dir", "a">>}}}

InitPaths ==
    /\ mode \in [Units -> {"Build", "RunCustomBuild"}]
    /\ \A u \in 1..(NumUnits - 1) : mode[u] = "Build"
    /\ pkg = [u \in Units |-> "p1"]
    /\ is_lib = [u \in Units |-> mode[u] = "Build"]
    /\ crate_name = [u \in Units |-> "foo"]
    /\ kind = [u \in Units |-> "Target"]
    /\ outputs \in [Units -> {<<f>> : f \in OutputFiles}]
    /\ roots = {u \in Units : mode[u] = "Build"}
    /\ unit_graph = [u \in Units |-> IF u \in roots THEN Units \ roots ELSE {}]
    /\ requires_upstream_objects = [u \in Units |-> FALSE]
    /\ shell_ok \in BOOLEAN
    /\ jobserver_from_env = {}
    /\ jobs = 1
    /\ force_rebuild = FALSE
    /\ Constructed
    /\ CleanDisk
    /\ Idle

\* compile() up to the start of the job queue
NextPaths ==
    \/ \E ok \in BOOLEAN : AcquireLock(ok)
    \/ PrepareUnits
    \/ \E failed \in {{}} \cup {{l} : l \in Kinds} : Prepare(failed)
    \/ CheckCollisions
    \/ ComputeMetadataForDocUnits
    \/ CompileRoots
    \/ QueueExecute

SpecPaths == InitPaths /\ [][NextPaths]_vars

\* one run of compile() on library and documentation units of one package,
\* built for the host or for a target, whose outputs may collide; the last
\* unit is the root and depends on all the others
InitPrepare ==
    /\ mode \in [Units -> {"Build", "Doc"}]
    /\ kind \in [Units -> Kinds]
    /\ outputs \in [Units -> {<<[path |-> <<"deps", x>>, hardlink |-> {},
                                 export_path |-> {}]>> : x \in Paths}]
    /\ pkg = [u \in Units |-> "p1"]
    /\ is_lib = [u \in Units |-> TRUE]
    /\ crate_name = [u \in Units |-> "foo"]
    /\ roots = {NumUnits}
    /\ unit_graph = [u \in Units |-> IF u \in roots THEN Units \ roots ELSE {}]
    /\ requires_upstream_objects = [u \in Units |-> FALSE]
    /\ shell_ok \in BOOLEAN
    /\ jobserver_from_env = {}
    /\ jobs = MaxJobs
    /\ force_rebuild = FALSE
    /\ Constructed
    /\ CleanDisk
    /\ Idle

SpecPrepare == InitPrepare /\ [][Next]_vars

\* one run of compile() while other cargo operations write to the package
\* cache
NextLock ==
    \/ \E ok \in BOOLEAN : AcquireLock(ok)
    \/ PrepareUnits
    \/ \E failed \in {{}} \cup {{l} : l \in Kinds} : Prepare(failed)
    \/ CheckCollisions
    \/ ComputeMetadataForDocUnits
    \/ CompileRoots
    \/ QueueExecute
    \/ \E u \in Units : Spawn(u)
    \/ \E u \in Units : RmetaProduced(u)
    \/ \E u \in Units, ok \in BOOLEAN : Finish(u, ok)
    \/ Interrupt
    \/ ExecuteReturn
    \/ Assemble
    \/ WriterAcquire
    \/ WriterRelease

SpecLock == Init /\ [][NextLock]_vars

\* the units of a documentation build: check, documentation and example
\* scraping units of the library foo of two packages, for the host or for a
\* target; the user asked for package p1, whose units depend on the others
InitDoc ==
    /\ mode \in [Units -> {"Build", "Check", "Doc", "Docscrape"}]
    /\ pkg \in [Units -> Pkgs]
    /\ kind \in [Units -> Kinds]
    /\ crate_name = [u \in Units |-> "foo"]
    /\ is_lib = [u \in Units |-> TRUE]
    /\ outputs = [u \in Units |-> <<>>]
    /\ roots = {u \in Units : pkg[u] = "p1"}
    /\ roots # {}
    /\ unit_graph = [u \in Units |-> IF u \in roots THEN Units \ roots ELSE {}]
    /\ requires_upstream_objects = [u \in Units |-> FALSE]
    /\ shell_ok = TRUE
    /\ jobserver_from_env = {}
    /\ jobs = 1
    /\ force_rebuild = FALSE
    /\ Constructed
    /\ CleanDisk
    /\ Idle

SpecDoc == InitDoc /\ [][NextPaths]_vars

\* the names of packages: up to MaxNameLen characters, the first of them a
\* letter
Names ==
    UNION {{n \in [1..len -> NameChars] : n[1] # "combining_circumflex"} :
              len \in 1..MaxNameLen}

\* make_dep_path on every name, for the prefix and for the whole path
InitDep ==
    /\ unit_graph = [u \in Units |-> {}]
    /\ mode = [u \in Units |-> "Build"]
    /\ requires_upstream_objects = [u \in Units |-> FALSE]
    /\ pkg = [u \in Units |-> "p1"]
    /\ PlainTargets
    /\ jobserver_from_env = {}
    /\ jobs = 1
    /\ force_rebuild = FALSE
    /\ Constructed
    /\ CleanDisk
    /\ NoSbom
    /\ NoTargetInfo
    /\ NoDu
    /\ NoLockFile
    /\ \E n \in Names : lookup_name = Encode(n)
    /\ lookup_prefix_only \in BOOLEAN
    /\ dep_path = <<>>

NextDep == MakeDepPathCall

SpecDep == InitDep /\ [][NextDep]_vars

\* a unit graph whose dependencies are known by their crate name or by
\* another name; every dependency of a unit comes before it in the order of
\* the units, or every dependency comes after it
AcyclicUp(g) == \A u \in Units : g[u] \subseteq (u + 1)..NumUnits

InitSbom ==
    /\ unit_graph \in {g \in [Units -> SUBSET Units] :
                          Acyclic(g) \/ AcyclicUp(g)}
    /\ mode = [u \in Units |-> "Build"]
    /\ requires_upstream_objects = [u \in Units |-> FALSE]
    /\ pkg = [u \in Units |-> "p1"]
    /\ PlainTargets
    /\ jobserver_from_env = {}
    /\ jobs = 1
    /\ force_rebuild = FALSE
    /\ Constructed
    /\ CleanDisk
    /\ NoLookup
    /\ NoTargetInfo
    /\ NoDu
    /\ NoLockFile
    /\ extern_crate_name \in [Units \X Units -> CrateNames]
    /\ \A p, d \in Units :
          d \notin unit_graph[p] => extern_crate_name[<<p, d>>] = "foo"
    /\ sbom_unit = 1
    /\ sbom_pc = "idle"
    /\ queue = {}
    /\ visited_dependencies = {}
    /\ packages = <<>>

NextSbom ==
    \/ \E unit \in Units : CollectPackages(unit)
    \/ PopFirst
    \/ CollectIndices

SpecSbom == InitSbom /\ [][NextSbom]_vars

\* collect_packages runs on: it is one sequential function
SpecSbomLive == SpecSbom /\ WF_vars(NextSbom)

\* what rustc --print=file-names writes for a crate type: the prefix, the
\* crate name ___ and the suffix
FileNames(platform, crate_type) ==
    LET lib == crate_type # "bin"
        prefix == IF lib /\ platform # "windows" THEN <<"lib">> ELSE <<>>
        suffix ==
            IF crate_type \in {"rlib", "lib"} THEN <<".rlib">>
            ELSE IF platform = "windows"
            THEN IF crate_type = "bin" THEN <<".exe">>
                 ELSE IF crate_type = "staticlib" THEN <<".lib">>
                 ELSE <<".dll">>
            ELSE IF crate_type = "bin"
            THEN IF platform = "emscripten" THEN <<".js">> ELSE <<>>
            ELSE IF crate_type = "staticlib" THEN <<".a">>
            ELSE <<".so">>
    IN  prefix \o <<"___">> \o suffix

Platforms == {"linux", "windows", "emscripten"}
KnownSet == {KNOWN_CRATE_TYPES[k] : k \in 1..Len(KNOWN_CRATE_TYPES)}

\* what rustc writes to stderr about the crate types in `dropped`, in the
\* order they were asked for
RECURSIVE Dropped(_, _, _)
Dropped(types, dropped, wording) ==
    IF types = <<>> THEN <<>>
    ELSE (IF Head(types) \in dropped
          THEN <<<<"warning", wording, Head(types)>>>>
          ELSE <<>>) \o Dropped(Tail(types), dropped, wording)

\* and to stdout about the others
RECURSIVE Printed(_, _, _)
Printed(types, dropped, platform) ==
    IF types = <<>> THEN <<>>
    ELSE (IF Head(types) \in dropped
          THEN <<>>
          ELSE <<FileNames(platform, Head(types))>>)
         \o Printed(Tail(types), dropped, platform)

\* rustc was probed for some target: it knows every crate type, drops the
\* ones the target cannot have with a warning, which is no error, and
\* prints one line for each of the others, then the sysroot and a cfg
InitTarget ==
    /\ NoBuild
    /\ Constructed
    /\ CleanDisk
    /\ NoLookup
    /\ NoSbom
    /\ NoDu
    /\ NoLockFile
    /\ probe \in {"with_cfg", "plain", "failed"}
    /\ \E platform \in Platforms, dropped \in SUBSET KnownSet,
          wording \in {"unsupported crate type", "unknown crate type"} :
          /\ rustc_stderr =
                 <<<<"warning", "unused", "rlib">>>>
                 \o Dropped(KNOWN_CRATE_TYPES, dropped, wording)
          /\ rustc_stdout =
                 Printed(KNOWN_CRATE_TYPES, dropped, platform)
                 \o (IF probe = "with_cfg"
                     THEN <<<<"/sysroot">>, <<"unix">>>>
                     ELSE <<>>)
          /\ discover \in
                {<<"err">>,
                 <<"ok", <<>>, <<FileNames(platform, "lib")>>>>,
                 <<"ok", <<<<"error", wording, "lib">>>>, <<>>>>}
    /\ crate_types = {}
    /\ sysroot_libdir = {}
    /\ ti_result = <<>>
    /\ ft_args = {}
    /\ ft_result = <<>>

NextTarget ==
    \/ TargetInfoNew
    \/ \E crate_type \in AskedCrateTypes, flavor \in FileFlavors,
          target_kind \in TargetKinds, target_triple \in Triples :
          FileTypesCall(crate_type, flavor, target_kind, target_triple)

SpecTarget == InitTarget /\ [][NextTarget]_vars

EntryChoices ==
    [kind : {"file"}, len : Lens]
    \cup [kind : {"dir", "bad_entry", "bad_metadata"}, len : {0}]

\* du is called on a directory
InitDu ==
    /\ NoBuild
    /\ Constructed
    /\ CleanDisk
    /\ NoLookup
    /\ NoSbom
    /\ NoTargetInfo
    /\ NoLockFile
    /\ tree \in [Entries -> EntryChoices]
    /\ variant \in {"atomic", "mutex"}
    /\ overflow_checks \in BOOLEAN
    /\ patterns_ok \in BOOLEAN
    /\ walked = {}
    /\ total = 0
    /\ total_lock = {}
    /\ walker = [t \in Walkers |-> WalkerIdle]
    /\ local = [t \in Walkers |-> 0]
    /\ walk_err = {}
    /\ quit = FALSE
    /\ panicked = FALSE
    /\ du_pc = "start"
    /\ du_result = <<>>

NextDu ==
    \/ DuStart
    \/ \E t \in Walkers, e \in Entries : Visit(t, e)
    \/ \E t \in Walkers : FetchAdd(t)
    \/ \E t \in Walkers : LockTotal(t)
    \/ \E t \in Walkers : LoadTotal(t)
    \/ \E t \in Walkers : StoreTotal(t)
    \/ DuReturn

SpecDu == InitDu /\ [][NextDu]_vars

\* a CargoLock is about to be made from the configuration
InitLockFile ==
    /\ NoBuild
    /\ Constructed
    /\ CleanDisk
    /\ NoLookup
    /\ NoSbom
    /\ NoTargetInfo
    /\ NoDu
    /\ config \in {{}, {"non-blocking"}, {"blocking"}, {"sometimes"}}
    /\ lock_kind = <<>>
    /\ lock_mode \in {"Read", "Write"}
    /\ holder \in {"none", "Read", "Write"}
    /\ lock_dir \in {"exists", "creatable", "racing", "denied"}
    /\ io_ok \in BOOLEAN
    /\ contended = FALSE
    /\ cl_pc = "config"
    /\ cl_result = <<>>

NextLockFile ==
    \/ LockKind
    \/ CreateDir
    \/ CreateDirAgain
    \/ AnyLock
    \/ SleepAndRetry
    \/ Wake
    \/ \E held \in {"none", "Read", "Write"} : OtherActor(held)
    \/ DirAppears

SpecLockFile == InitLockFile /\ [][NextLockFile]_vars

\* ------------------------------------------------------------------ claims
\* an edge on which the parent needs only the rmeta of the dependency: both
\* are Build-mode units and neither requires upstream objects
RmetaOnlyEdge(p, c) ==
    /\ mode[p] = "Build" /\ ~requires_upstream_objects[p]
    /\ mode[c] = "Build" /\ ~requires_upstream_objects[c]

\* C1: a parent's compiler process is never spawned before the required
\* artifact of each of its dependencies exists: the rmeta of the dependency
\* on an rmeta-only edge, its successful finish on any other edge.
C1_ArtifactBeforeSpawn ==
    \A p \in Spawned : \A c \in unit_graph[p] :
        IF RmetaOnlyEdge(p, c)
        THEN c \in rmeta_produced
        ELSE Finished(c)

\* a parent runs on the rmeta of one running dependency and on the finished
\* object of another
C1_Witness ==
    \E p \in Units : \E c, d \in unit_graph[p] :
        /\ state[p] = "Running"
        /\ RmetaOnlyEdge(p, c) /\ state[c] = "Running" /\ c \in rmeta_produced
        /\ ~RmetaOnlyEdge(p, d) /\ state[d] = "FinishedCompiled"

\* C2, as the specification states it: every dependency has finished before
\* its dependent starts.
C2_FinishBeforeStart ==
    \A p \in Spawned : \A u \in unit_graph[p] : Finished(u)

\* C2, amended: at the step that starts p, every dependency u of p has
\* finished, except on an rmeta-only edge, where u has at least produced its
\* rmeta.
C2_FinishOrRmetaBeforeStart ==
    [][\A p \in Units :
          (state[p] # "Running" /\ state'[p] = "Running") =>
              \A u \in unit_graph[p] :
                  \/ Finished(u)
                  \/ RmetaOnlyEdge(p, u) /\ u \in rmeta_produced]_vars

\* a unit that requires upstream objects runs after its dependency finished
C2_Witness ==
    \E p \in Units : \E u \in unit_graph[p] :
        /\ requires_upstream_objects[p]
        /\ state[p] = "Running"
        /\ state[u] = "FinishedCompiled"

\* C3: with a jobserver created for jobs = N, at most N compiler processes
\* run at once, and the queue only waits with ready units left when N run.
C3_AtMostJobsRunning ==
    jobserver_from_env = {} =>
        /\ Cardinality(Running) <= jobs
        /\ (/\ pc = "executing"
            /\ first_error = <<>>
            /\ ~CanSpawn
            /\ \E u \in Units : state[u] = "Queued")
           => Cardinality(Running) = jobs

\* MaxJobs tokens and more independent leaf units than that: MaxJobs run,
\* the next one waits
C3_Witness ==
    /\ jobserver_from_env = {}
    /\ jobs = MaxJobs
    /\ \A u \in Units : unit_graph[u] = {}
    /\ Cardinality(Running) = MaxJobs
    /\ \E u \in Units : state[u] = "Queued"

\* C4: after a failure or an interrupt no unit starts running, and execute
\* has returned only when no job runs and every token is back in the pool.
C4_NoSpawnAfterError ==
    [][/\ (fail_log # <<>> \/ interrupted) =>
              \A u \in Units : state'[u] = "Running" => state[u] = "Running"
       /\ pc' \in {"assemble", "done"} =>
              /\ Running' = {}
              /\ tokens' = 0
              /\ jobserver' = IF jobserver_from_env = {} THEN jobs - 1
                              ELSE Min(jobserver_from_env)]_vars

\* execute returned an error after draining a job that outlived the
\* failure, and left a ready unit unstarted
C4_Witness ==
    /\ pc = "done"
    /\ fail_log # <<>>
    /\ \E u \in Units : state[u] = "Queued"
    /\ \E u \in Units : state[u] = "FinishedCompiled" /\ stored[u] # {}
    /\ Cardinality({u \in Units : state[u] \in {"Failed", "FinishedCompiled"}}) >= 2

\* C5: the error execute returns is the first failure the queue received;
\* a later failure never replaces it.
C5_FirstFailureReturned ==
    (fail_log # <<>> /\ ~interrupted) =>
        /\ first_error = <<"failed", fail_log[1]>>
        /\ pc = "done" => result = <<"failed", fail_log[1]>>

\* two jobs failed, one after the other, and execute returned
C5_Witness ==
    /\ pc = "done"
    /\ ~interrupted
    /\ Len(fail_log) >= 2

\* C8: on an rmeta-only edge the parent is ready as soon as the rmeta of the
\* dependency is there and its other dependencies are satisfied, before the
\* dependency finishes; an rmeta event alone never makes ready a parent
\* that requires upstream objects.
C8_Pipelining ==
    [][/\ \A p \in Units :
            (/\ state[p] = "Pending" /\ state'[p] = "Queued"
             /\ pc = "executing"
             /\ \A u \in Units : Finished(u)' <=> Finished(u))
            => (~requires_upstream_objects[p] /\ mode[p] = "Build")
       /\ pc' = "executing" =>
            \A p \in Units :
               (\A c \in unit_graph[p] :
                    \/ Finished(c)'
                    \/ RmetaOnlyEdge(p, c) /\ c \in rmeta_produced')
               => state'[p] # "Pending"]_vars

\* the parent runs while the dependency whose rmeta it uses still runs
C8_Witness ==
    \E p \in Units : \E c \in unit_graph[p] :
        /\ state[p] = "Running"
        /\ state[c] = "Running"
        /\ unit_graph[p] = {c}

\* compile() returned before it came to its roots
ReturnedEarly ==
    /\ pc = "done"
    /\ result[1] \in {"lock_error", "prepare_error", "doc_collision",
                      "shell_error"}

\* the units of this run have been judged
Judged ==
    \/ pc \in {"queue_execute", "executing", "assemble"}
    \/ pc = "done" /\ ~ReturnedEarly

\* C6, as the specification states it: in a second compile() with nothing
\* changed since the first, every unit is judged Fresh and no compiler
\* process is spawned.
C6_SecondRunAllFresh ==
    (run = "second" /\ changed = {} /\ Judged) =>
        /\ \A u \in Units : fresh[u]
        /\ Spawned = {}

\* C6, amended: when the first compile() returned successfully and
\* force_rebuild is not set, a second compile() with nothing changed judges
\* every unit Fresh and spawns no compiler process.
C6_SecondRunAllFreshAfterSuccess ==
    (/\ run = "second" /\ changed = {} /\ Judged
     /\ \E s \in last_run : s.result = <<"ok">>
     /\ ~force_rebuild) =>
        /\ \A u \in Units : fresh[u]
        /\ Spawned = {}
        /\ \A u \in Units : argv[u] = {}

\* the second run of an unchanged, built graph returned with every unit
\* finished Fresh
C6_Witness ==
    /\ run = "second" /\ changed = {} /\ ~force_rebuild
    /\ \E s \in last_run : s.result = <<"ok">>
    /\ pc = "done" /\ result = <<"ok">>
    /\ \A u \in Units : state[u] = "FinishedFresh"
    /\ \E u \in Units : unit_graph[u] # {}

\* the source file of u was removed or is newer than the first build
SourceChanged(u) == ~source[u].exists \/ source[u].mtime > 0

\* C7: a unit is judged Fresh only if all its children are; once the source
\* file of u was removed or changed, the next compile() judges u and every
\* transitive dependent of u Dirty, and still judges Fresh every unit that
\* was Fresh before and neither changed nor depends on a changed unit.
C7_DirtyPropagates ==
    Judged =>
        /\ \A u \in Units : fresh[u] => \A c \in unit_graph[u] : fresh[c]
        /\ run = "second" =>
            /\ \A u \in Units : SourceChanged(u) =>
                  \A p \in {u} \cup Dependents(u) : ~fresh[p]
            /\ \A s \in last_run : \A v \in s.fresh :
                  (\A u \in changed : v # u /\ v \notin Dependents(u))
                  => fresh[v]

\* everything was built; the source of a unit with a dependent was removed:
\* the unit and its dependent are Dirty, an unrelated unit is still Fresh
C7_Witness ==
    /\ run = "second" /\ Judged
    /\ \E s \in last_run : s.fresh = Units
    /\ \E u, p, v \in Units :
          /\ ~source[u].exists
          /\ u \in unit_graph[p]
          /\ v \notin {u} \cup Dependents(u)
          /\ ~fresh[u] /\ ~fresh[p] /\ fresh[v]

DocClash(u, v) ==
    /\ u # v
    /\ mode[u] = "Doc" /\ mode[v] = "Doc"
    /\ \E r \in roots : pkg[r] = pkg[u]
    /\ \E r \in roots : pkg[r] = pkg[v]
    /\ crate_name[u] = crate_name[v] /\ kind[u] = kind[v]
    /\ is_lib[u] = is_lib[v]

\* C10: check_collisions returns an error whenever two Doc-mode units of
\* primary packages share crate name and kind and are both libraries or
\* both not, the document collision error if the shell can be written to;
\* that error always names such a pair, so a library and a binary of one
\* name, or units of other packages, never cause it.
C10_DocCollisionFatal ==
    cc # <<>> =>
        /\ (\E u, v \in Units : DocClash(u, v)) =>
              /\ cc # <<"ok">>
              /\ shell_ok => cc[1] = "doc_collision"
        /\ cc[1] = "doc_collision" => DocClash(cc[2], cc[3])

\* two documented libraries foo collide although a documented binary foo of
\* the same package and kind came between them
C10_Witness ==
    /\ cc = <<"doc_collision", 3, 1>>
    /\ is_lib[1] /\ ~is_lib[2] /\ is_lib[3]
    /\ mode[2] = "Doc" /\ 2 \in roots
    /\ crate_name[2] = crate_name[1] /\ kind[2] = kind[1]

\* the file names `unit` writes: the path of each output, its hardlink and
\* its export path
Claimed(unit) ==
    UNION {{outputs[unit][i].path} \cup outputs[unit][i].hardlink
              \cup outputs[unit][i].export_path :
           i \in 1..Len(outputs[unit])}

\* two units that check_collisions looks at write one file name
PathClash(u, v) ==
    /\ u # v
    /\ mode[u] # "RunCustomBuild" /\ mode[v] # "RunCustomBuild"
    /\ Claimed(u) \cap Claimed(v) # {}

Warned(u, v, path) ==
    \E i \in 1..Len(warnings) :
        /\ warnings[i].path = path
        /\ {warnings[i].unit, warnings[i].other_unit} = {u, v}

\* the units check_collisions looks at that write `path`
Claimants(path) ==
    {u \in Units : mode[u] # "RunCustomBuild" /\ path \in Claimed(u)}

C14_PreparedAndCheckedBeforeJobs ==
    /\ (\/ pc \in {"compile_roots", "queue_execute", "executing", "assemble"}
        \/ Spawned # {}
        \/ \E u \in Units : state[u] # "Pending" \/ queue_deps[u] # {}) =>
           /\ Layouts \subseteq prepared
           /\ cc = <<"ok">>
    /\ (pc = "done" /\ result[1] \in {"prepare_error", "doc_collision",
                                       "shell_error"}) =>
           /\ Spawned = {}
           /\ \A u \in Units : /\ state[u] = "Pending"
                               /\ queue_deps[u] = {}
                               /\ argv[u] = {}

\* a compiler process runs for a target unit after both layouts were
\* prepared and a path collision was warned about
C14_Witness ==
    /\ Running # {}
    /\ TargetLayouts # {}
    /\ prepared = {"Host", "Target"}
    /\ cc = <<"ok">>
    /\ warnings # <<>>

\* the dependencies of which some parent needs only the rmeta
RmetaOnlyDeps ==
    {d \in Units : \E p \in Units : d \in unit_graph[p] /\ RmetaOnlyEdge(p, d)}

IsDocUnit(u) == mode[u] \in {"Doc", "Docscrape"}

\* C15, as the specification states it: when prepare_units has returned,
\* and so before check_collisions runs, rmeta_required and
\* metadata_for_doc_units are both filled in.
C15_BothPopulatedByPrepareUnits ==
    pc \in {"prepare", "check_collisions"} =>
        /\ rmeta_required = RmetaOnlyDeps
        /\ \A u \in Units : IsDocUnit(u) => metadata_for_doc_units[u] # {}

\* C15, amended: when prepare_units has returned rmeta_required is filled
\* in; metadata_for_doc_units is still empty then and while check_collisions
\* runs, and is filled in for every Doc and Docscrape unit after
\* check_collisions returned Ok, before the first root is compiled.
C15_PopulatedBeforeRoots ==
    /\ pc \in {"prepare", "check_collisions", "doc_metadata", "compile_roots",
               "queue_execute", "executing", "assemble"} =>
           rmeta_required = RmetaOnlyDeps
    /\ pc \in {"prepare", "check_collisions", "doc_metadata"} =>
           \A u \in Units : metadata_for_doc_units[u] = {}
    /\ pc \in {"compile_roots", "queue_execute", "executing", "assemble"} =>
           /\ cc = <<"ok">>
           /\ \A u \in Units : IsDocUnit(u) <=> metadata_for_doc_units[u] # {}

\* check_collisions is about to run on a graph with a documentation unit
\* and a library whose rmeta is enough for a dependent: rmeta_required is
\* there, the metadata of the documentation unit is not
C15_Witness ==
    /\ pc = "check_collisions"
    /\ rmeta_required # {}
    /\ \E u \in Units : IsDocUnit(u) /\ metadata_for_doc_units[u] = {}

\* C16: compile() takes the shared package cache lock before it does
\* anything else, holds it in every state in which a job is queued or runs
\* or the Compilation is assembled, and lets it go only by returning, with a
\* result or an error; so no holder of the exclusive lock overlaps a build.
C16_SharedLockHeld ==
    /\ pc = "lock" =>
           /\ lock = "none"
           /\ primary_packages = {} /\ rmeta_required = {} /\ prepared = {}
           /\ cc = <<>> /\ Spawned = {}
    /\ pc \notin {"lock", "done"} => lock = "shared"
    /\ (\/ Running # {}
        \/ pc = "executing" /\ \E u \in Units : state[u] = "Queued"
        \/ pc = "assemble") => lock = "shared"
    /\ pc = "done" => lock = "none" /\ result # <<>>
    /\ ~(writer /\ lock = "shared")

\* a job runs under the shared lock while no writer holds the exclusive one
C16_Witness ==
    /\ Running # {}
    /\ \E u \in Units : state[u] = "Queued"
    /\ lock = "shared"
    /\ ~writer

\* prepare_units has returned in this run of compile()
UnitsPrepared ==
    /\ pc \notin {"lock", "prepare_units"}
    /\ ~(pc = "done" /\ result = <<"lock_error">>)

SameTarget(u, m) ==
    {o \in Units : /\ pkg[o] = pkg[u]
                   /\ crate_name[o] = crate_name[u] /\ is_lib[o] = is_lib[u]
                   /\ mode[o] = m}

\* C18: for every Doc or Docscrape unit, metadata_for_doc_units holds the
\* metadata of a Check unit of the same package and target if there is one,
\* else that of a Doc unit of the same package and target if there is one,
\* else the unit's own; the metadata of a Docscrape unit is never recorded
\* for another unit.
C18_DocMetadataSource ==
    pc \in {"compile_roots", "queue_execute", "executing"} =>
        \A u \in Units : IsDocUnit(u) =>
            /\ \E src \in Units :
                  /\ metadata_for_doc_units[u] = {Metadata(src)}
                  /\ IF SameTarget(u, "Check") # {}
                     THEN src \in SameTarget(u, "Check")
                     ELSE IF SameTarget(u, "Doc") # {}
                          THEN src \in SameTarget(u, "Doc")
                          ELSE src = u
            /\ \A v \in Units \ {u} :
                  mode[v] = "Docscrape" =>
                      Metadata(v) \notin metadata_for_doc_units[u]

\* a documentation unit is given the metadata of the check unit of its
\* target, and a scraping unit of another package, with no check and no
\* documentation unit, its own
C18_Witness ==
    /\ pc = "compile_roots"
    /\ \E c, d, e \in Units :
          /\ mode[c] = "Check" /\ mode[d] = "Doc" /\ mode[e] = "Docscrape"
          /\ pkg[c] = pkg[d] /\ pkg[e] # pkg[d]
          /\ metadata_for_doc_units[d] = {Metadata(c)}
          /\ metadata_for_doc_units[e] = {Metadata(e)}
          /\ metadata_for_doc_units[c] = {}

\* the characters of the name make_dep_path was given
LookupChars == Chars(lookup_name)

\* C19: for the prefix alone make_dep_path returns "1" for a name of one
\* character, "2" for two, "3/" and the first character for three, and the
\* first two characters, "/" and the next two for four or more, the
\* characters in the case they have in the name; for the whole path it
\* returns that prefix, "/" and the name as it is.
C19_PrefixRules ==
    dep_path # <<>> =>
        LET c == LookupChars
            prefix ==
                IF Len(c) = 1 THEN <<"1">>
                ELSE IF Len(c) = 2 THEN <<"2">>
                ELSE IF Len(c) = 3 THEN <<"3", "/", c[1]>>
                ELSE <<c[1], c[2], "/", c[3], c[4]>>
        IN  dep_path = IF lookup_prefix_only THEN Encode(prefix)
                       ELSE Encode(prefix \o <<"/">> \o c)

\* the whole path of the name aBaBa is aB/aB/aBaBa
C19_Witness ==
    /\ lookup_name = Encode(<<"a", "B", "a", "B", "a">>)
    /\ ~lookup_prefix_only
    /\ dep_path = Encode(<<"a", "B", "/", "a", "B", "/",
                           "a", "B", "a", "B", "a">>)

\* what the user sees as characters: a combining mark belongs to the
\* character before it
UserPerceived(chars) ==
    Cardinality({i \in 1..Len(chars) : chars[i] # "combining_circumflex"})

RECURSIVE WholeChars(_)
\* the bytes are the encodings of whole characters
WholeChars(bytes) ==
    \/ bytes = <<>>
    \/ /\ Len(bytes) >= Utf8Len(bytes[1][1])
       /\ \A i \in 1..Utf8Len(bytes[1][1]) : bytes[i] = <<bytes[1][1], i>>
       /\ WholeChars(SubSeq(bytes, Utf8Len(bytes[1][1]) + 1, Len(bytes)))

\* the first byte of the path under the rule for names of n characters
RuleOf(n) ==
    IF n = 1 THEN <<"1", 1>>
    ELSE IF n = 2 THEN <<"2", 1>>
    ELSE IF n = 3 THEN <<"3", 1>>
    ELSE lookup_name[1]

\* C20, as the specification states it: make_dep_path chooses its rule and
\* cuts the segments by the characters the user perceives, not by bytes,
\* and no segment splits such a character.
C20_CountsUserPerceived ==
    dep_path # <<>> =>
        /\ dep_path[1] = RuleOf(UserPerceived(LookupChars))
        /\ WholeChars(dep_path)
        /\ \A i \in 1..Len(dep_path) :
              dep_path[i][1] = "combining_circumflex" =>
                  i > 1 /\ dep_path[i - 1][1] # "/"

\* C20, amended: make_dep_path chooses its rule and cuts the segments by
\* the Unicode scalar values of the name, not by its bytes and not by the
\* characters the user perceives; every segment is made of whole scalar
\* values.
C20_CountsScalarValues ==
    dep_path # <<>> =>
        /\ dep_path[1] = RuleOf(Len(LookupChars))
        /\ WholeChars(dep_path)
        /\ Len(LookupChars) >= 4 =>
              Take(dep_path, Len(Encode(Take(LookupChars, 2))))
                  = Encode(Take(LookupChars, 2))

\* the name of the two characters c-circumflex and a, three bytes, has the
\* prefix "2"
C20_Witness ==
    /\ lookup_name = Encode(<<"c_circumflex", "a">>)
    /\ Len(lookup_name) = 3
    /\ lookup_prefix_only
    /\ dep_path = Encode(<<"2">>)

RECURSIVE SplitFrom(_, _, _)
\* the segments of bytes[i..] after the segment `seg` that is being read
SplitFrom(bytes, i, seg) ==
    IF i > Len(bytes) THEN <<seg>>
    ELSE IF bytes[i] = <<"/", 1>>
         THEN <<seg>> \o SplitFrom(bytes, i + 1, <<>>)
         ELSE SplitFrom(bytes, i + 1, Append(seg, bytes[i]))

\* str::split('/')
Split(bytes) == SplitFrom(bytes, 1, <<>>)

\* C21: the whole path make_dep_path returns for a name, split on "/", ends
\* with the name and starts with the first two characters of the name, or
\* with "1", "2", "3" for a name of one, two, three characters.
C21_RoundTrip ==
    (dep_path # <<>> /\ ~lookup_prefix_only) =>
        LET segments == Split(dep_path)
            c == LookupChars
        IN  /\ segments[Len(segments)] = lookup_name
            /\ segments[1] = IF Len(c) = 1 THEN Encode(<<"1">>)
                             ELSE IF Len(c) = 2 THEN Encode(<<"2">>)
                             ELSE IF Len(c) = 3 THEN Encode(<<"3">>)
                             ELSE Encode(<<c[1], c[2]>>)
            /\ Len(segments) = IF Len(c) <= 2 THEN 2 ELSE 3

\* the path of a name of four characters, one of them of two bytes, splits
\* into its first two characters, the next two and the name
C21_Witness ==
    /\ ~lookup_prefix_only
    /\ lookup_name = Encode(<<"a", "B", "a", "c_circumflex">>)
    /\ Split(dep_path) = <<Encode(<<"a", "B">>),
                           Encode(<<"a", "c_circumflex">>),
                           lookup_name>>

\* the numbers in the dependencies of an entry
DependencyIndices(package) ==
    {package.dependencies[k] : k \in 1..Len(package.dependencies)}

\* C22: in the array collect_packages returns, every number in the
\* dependencies of an entry is an index into the array, and j is in the
\* dependencies of packages[i] exactly when packages[j] is the entry of a
\* direct dependency of the unit that packages[i] describes (indices from 0).
C22_DependencyIndices ==
    sbom_pc = "returned" =>
        \A i \in 1..Len(packages) :
            /\ DependencyIndices(packages[i]) \subseteq 0..(Len(packages) - 1)
            /\ \A j \in 1..Len(packages) :
                  (j - 1) \in DependencyIndices(packages[i]) <=>
                      packages[j].unit_dep
                          \in UnitDeps(packages[i].unit_dep.unit)

\* the UnitDeps of `unit` and of every unit it depends on, directly or not
ReachableDeps(unit) ==
    UNION {UnitDeps(v) : v \in {unit} \cup TransitiveDeps(unit)}

\* C27: collect_packages returns, and what it returns has exactly one entry
\* for each distinct UnitDep that can be reached from the direct
\* dependencies of the unit: none is missing and none is there twice.
C27_OneEntryPerUnitDep ==
    /\ <>(sbom_pc = "returned")
    /\ [](sbom_pc = "returned" =>
            /\ {packages[i].unit_dep : i \in 1..Len(packages)}
                   = ReachableDeps(sbom_unit)
            /\ Len(packages) = Cardinality(ReachableDeps(sbom_unit)))

\* a unit that two units depend on, under two names, has two entries, and
\* the unit between them one
C27_Witness ==
    /\ sbom_pc = "returned"
    /\ Len(packages) = 3
    /\ \E i, j \in 1..Len(packages) :
          /\ i # j
          /\ packages[i].unit_dep.unit = packages[j].unit_dep.unit
    /\ \E p \in Units \ {sbom_unit} : unit_graph[p] # {}

\* what the TargetInfo knows of a crate type when file_types is asked about
\* it: <<"ok", None or Some((prefix, suffix))>>, or <<"err">> if rustc has
\* to be asked and cannot be run
KnownInfo(crate_type) ==
    IF crate_type \in KnownSet
    THEN <<"ok", CHOOSE v \in Get(crate_types, crate_type) : TRUE>>
    ELSE IF discover[1] = "err" THEN <<"err">>
    ELSE IF discover[3] = <<>> THEN <<"ok", {}>>
    ELSE LET parts == SplitParts(discover[3][1], <<>>)
         IN  <<"ok", {<<parts[1], parts[2]>>}>>

\* the extra file of a rule, if its condition holds
Extra(cond, prefix, suffix, flavor, hyphens) ==
    IF cond
    THEN <<[suffix |-> suffix, prefix |-> prefix, flavor |-> flavor,
            should_replace_hyphens |-> hyphens]>>
    ELSE <<>>

\* the primary file and the extra files of the first three rules
PrimaryAndExtras(a, prefix, suffix) ==
    Extra(TRUE, prefix, suffix, a.flavor, FALSE)
    \o Extra(/\ EndsWith(a.target_triple, <<"pc", "windows", "msvc">>)
             /\ a.crate_type \in {"dylib", "cdylib"}
             /\ suffix = <<".dll">>,
             prefix, <<".dll.lib">>, "Normal", FALSE)
    \o Extra(/\ StartsWithHyphen(a.target_triple, "wasm32")
             /\ a.crate_type = "bin"
             /\ suffix = <<".js">>,
             prefix, <<".wasm">>, "Normal", TRUE)
    \o Extra(/\ ContainsHyphens(a.target_triple, "apple")
             /\ a.kind = "Bin",
             prefix, <<".dSYM">>, "DebugInfo", FALSE)

\* the stem of a file, and what it is with underscores
Stem == <<"my", "-", "app">>
StemReplaced == <<"my", "_", "app">>

\* only the .wasm file is named with underscores for hyphens
NamedAsFlagged(ret) ==
    \A k \in 1..Len(ret) :
        Filename(ret[k], Stem) =
            ret[k].prefix
            \o (IF ret[k].suffix = <<".wasm">> THEN StemReplaced ELSE Stem)
            \o ret[k].suffix

\* C23 as it was claimed: file_types returns None when the crate type is
\* not supported; otherwise it returns the primary file first, with the
\* flavor asked for, and then one extra file for each rule whose condition
\* holds, the .pdb of every binary of a target ending in -msvc among them.
C23_ExtraForEachRule ==
    ft_args # {} =>
        LET a == CHOOSE x \in ft_args : TRUE
            info == KnownInfo(a.crate_type)
        IN  /\ info[1] = "ok"
            /\ ft_result[1] = "ok"
            /\ (info[2] = {}) <=> (ft_result[2] = {})
            /\ info[2] # {} =>
                  LET ps == CHOOSE v \in info[2] : TRUE
                  IN  /\ ft_result[2] =
                            {PrimaryAndExtras(a, ps[1], ps[2])
                             \o Extra(/\ EndsWithHyphen(a.target_triple,
                                                        "msvc")
                                      /\ a.kind = "Bin",
                                      ps[1], <<".pdb">>, "DebugInfo", FALSE)}
                      /\ \A ret \in ft_result[2] : NamedAsFlagged(ret)

\* C23: file_types fails when rustc has to be asked about the crate type
\* and cannot be run, and returns None when the crate type is not supported;
\* otherwise it returns the primary file first, with the flavor asked for,
\* and then one extra file for each rule whose condition holds, where the
\* .pdb rule holds for a binary of a target that ends in -msvc and does not
\* contain -apple-.
C23_ExtraForEachRuleDebugInfoOnce ==
    ft_args # {} =>
        LET a == CHOOSE x \in ft_args : TRUE
            info == KnownInfo(a.crate_type)
        IN  /\ (info[1] = "err") <=> (ft_result[1] = "err")
            /\ info[1] = "ok" =>
                  /\ (info[2] = {}) <=> (ft_result[2] = {})
                  /\ info[2] # {} =>
                        LET ps == CHOOSE v \in info[2] : TRUE
                        IN  /\ ft_result[2] =
                                  {PrimaryAndExtras(a, ps[1], ps[2])
                                   \o Extra(/\ EndsWithHyphen(
                                                   a.target_triple, "msvc")
                                            /\ ~ContainsHyphens(
                                                   a.target_triple, "apple")
                                            /\ a.kind = "Bin",
                                            ps[1], <<".pdb">>, "DebugInfo",
                                            FALSE)}
                            /\ \A ret \in ft_result[2] : NamedAsFlagged(ret)

\* a binary of a target that contains -apple- and ends in -msvc got its
\* primary file and a .dSYM, and nothing else
C23_Witness ==
    /\ ft_args # {}
    /\ ft_result[1] = "ok"
    /\ \E a \in ft_args, ret \in ft_result[2] :
          /\ a.kind = "Bin"
          /\ ContainsHyphens(a.target_triple, "apple")
          /\ EndsWithHyphen(a.target_triple, "msvc")
          /\ Len(ret) = 2
          /\ ret[2].suffix = <<".dSYM">>

\* rustc reported the crate type as one the target cannot have
Reported(crate_type) ==
    \E k \in 1..Len(rustc_stderr) :
        /\ rustc_stderr[k][2]
               \in {"unsupported crate type", "unknown crate type"}
        /\ rustc_stderr[k][3] = crate_type

\* the line rustc printed for the k-th known crate type: one line for each
\* crate type it did not report, in their order
OwnLine(k) ==
    rustc_stdout[Cardinality({j \in 1..k :
                                 ~Reported(KNOWN_CRATE_TYPES[j])})]

\* C24: when TargetInfo::new has parsed what rustc wrote, a known crate type
\* is mapped to None exactly when rustc reported it as unsupported or
\* unknown, and every other one to the prefix and suffix of its own line,
\* whatever set of crate types was reported.
C24_AlignedForAnySubset ==
    (ti_result = <<"ok">> /\ ft_args = {}) =>
        \A k \in 1..Len(KNOWN_CRATE_TYPES) :
            LET info == Get(crate_types, KNOWN_CRATE_TYPES[k])
            IN  IF Reported(KNOWN_CRATE_TYPES[k])
                THEN info = {{}}
                ELSE \E ps \in UNION info :
                        /\ info = {{ps}}
                        /\ ps[1] \o <<"___">> \o ps[2] = OwnLine(k)

RECURSIVE SumLen(_)
\* the sum of the byte sizes of the regular files among the entries S
SumLen(S) ==
    IF S = {} THEN 0
    ELSE LET e == CHOOSE x \in S : TRUE
         IN  (IF tree[e].kind = "file" THEN tree[e].len ELSE 0)
             + SumLen(S \ {e})

\* an entry, or its metadata, cannot be read
Unreadable ==
    \E e \in Entries : tree[e].kind \in {"bad_entry", "bad_metadata"}

\* the walk was started and du_inner has returned, or panicked
Walked == du_pc = "done" /\ patterns_ok

\* C25 as it was claimed: du returns the sum of the byte sizes of all
\* regular files under the root, however the threads interleave and in the
\* atomic and in the mutex variant alike; if an entry or its metadata cannot
\* be read it returns an error, and no partial sum.
C25_SumOfAllFiles ==
    Walked =>
        IF Unreadable THEN du_result[1] = "err"
        ELSE du_result = <<"ok", SumLen(Entries)>>

\* C25: du returns the sum, modulo 2^64, of the byte sizes of all regular
\* files under the root, however the threads interleave and in the atomic
\* and in the mutex variant alike, except that the mutex variant panics in a
\* build that checks overflow when an addition does not fit; if an entry or
\* its metadata cannot be read and there was no such panic, it returns an
\* error, and no partial sum.
C25_SumOfAllFilesWrapped ==
    Walked =>
        /\ du_result = <<"panic">> =>
              /\ variant = "mutex"
              /\ overflow_checks
              /\ SumLen(Entries) >= U64
        /\ (du_result # <<"panic">> /\ Unreadable) => du_result[1] = "err"
        /\ ~Unreadable =>
              IF variant = "mutex" /\ overflow_checks
                 /\ SumLen(Entries) >= U64
              THEN du_result = <<"panic">>
              ELSE du_result = <<"ok", SumLen(Entries) % U64>>

\* three files were counted by two threads under the mutex, and their sum,
\* which does not fit the counter, came back wrapped
C25_Witness ==
    /\ Walked
    /\ variant = "mutex"
    /\ \A e \in Entries : tree[e].kind = "file"
    /\ SumLen(Entries) >= U64
    /\ du_result = <<"ok", SumLen(Entries) % U64>>
    /\ \E t \in Walkers : local[t] # 0

\* C26: contention on the lock file is not fatal. CargoLock::lock returns
\* an error only when the parent directory could not be made at the second
\* attempt or when locking failed for another reason than the lock being
\* held: never after an attempt that found the lock held by another actor.
C26_ContentionNotFatal ==
    (cl_pc = "done" /\ cl_result # <<>> /\ cl_result[1] = "err") =>
        /\ ~contended
        /\ cl_result[2] \in {"Failed to create parent directory", "IoError"}

\* C28: if no unit fails and no interrupt arrives, every unit of an acyclic
\* unit graph eventually is Finished and execute returns success, for every
\* number of jobs from 1 on, also for jobs = 1, where the jobserver that was
\* created has no token left in its pool.
C28_EveryUnitFinishes ==
    (pc = "executing") ~>
        (/\ pc \in {"assemble", "done"}
         /\ first_error = <<>>
         /\ \A u \in Units : Finished(u))

\* with one job and an empty pool, a graph with dependencies was compiled
\* to the end
C28_Witness ==
    /\ pc = "done"
    /\ result = <<"ok">>
    /\ jobserver_from_env = {}
    /\ jobs = 1
    /\ jobserver = 0
    /\ \A u \in Units : state[u] = "FinishedCompiled"
    /\ \E u \in Units : unit_graph[u] # {}

\* the warnings about `path`, in the order they were written
WarningsAbout(path) == SelectSeq(warnings, LAMBDA w : w.path = path)

\* every path that k >= 2 units claim has k - 1 warnings, each of a unit with
\* the claimant before it in the sorted order, and the check gives the same
\* warnings and the same result whatever the order of the keys of the map
OneWarningPerLaterClaimant ==
    /\ \A path \in UNION {Claimed(u) : u \in Units} :
          LET claimants == Sorted(Claimants(path))
              about == WarningsAbout(path)
          IN  Len(claimants) >= 2 =>
                 /\ Len(about) = Len(claimants) - 1
                 /\ \A i \in 1..Len(about) :
                       /\ about[i].unit = claimants[i + 1]
                       /\ about[i].other_unit = claimants[i]
    /\ \A order \in KeyOrders :
          LET r == CheckKeys(EmptyMaps, KeysFrom(order))
          IN  /\ r.warnings = warnings
              /\ cc = IF r.result = <<>> THEN <<"ok">> ELSE r.result

C30_IndependentOfKeyOrder ==
    pc \in {"compile_roots", "queue_execute", "executing"} =>
        \A keys \in KeyOrders :
            \A unit \in Units : IsDocUnit(unit) =>
                metadata_for_doc_units[unit]
                    = {Metadata(MetadataUnit(unit, keys))}

====
